---- MODULE Spec2Model ----
(***************************************************************************)
(* Verification model of the report extraction and query synthesis core   *)
(* of pbi-to-exec-deck: lib/extraction/pbip_extractor.py (project         *)
(* directories) and lib/extraction/pbix_extractor.py (archives).          *)
(*                                                                         *)
(* Text is modelled as a sequence of one-character strings, so that the    *)
(* normalisation, splitting and formatting code is computed character by   *)
(* character.  Python lists are sequences, dicts are functions or          *)
(* association sequences, and page dicts that the code mutates in place    *)
(* are objects addressed by their index in the discovered list.            *)
(***************************************************************************)
EXTENDS Integers, Sequences, FiniteSets, TLC

VARIABLES
    pc,          \* stage of the run that is modelled
    pages,       \* discovered page list (page dicts, discovery order)
    pagesJson,   \* state of pages/pages.json, the explicit order manifest
    reportJson,  \* state of report.json, the image-resource manifest
    orderer,     \* which orderer produced `ordered`
    ordered,     \* returned page list, as indices into `heap`
    heap,        \* the page dicts after the orderer mutated them
    schema,      \* schema generation of the visual being resolved
    bindings,    \* field projections of one visual, in document order
    info,        \* the visual record built from the bindings
    qpages,      \* page list handed to build_dax_queries
    model,       \* aggregated model: the flattened measure list
    result,      \* query groups returned by build_dax_queries
    contrib,     \* per page and visual, the queries that visual added
    visualSrc,   \* one visual as it is stored, before either layout renders it
    splitRec,    \* the visual record built from the split layout
    layoutRec,   \* the visual record built from the monolithic layout
    lines,       \* the lines of one definition file (text.splitlines())
    line_no,     \* index of the next line the parser scans
    scan,        \* the parser's locals and its result so far
    reportDir,   \* the page folders of the report as they are listed, with their manifests
    found        \* what page discovery returned

orderVars == <<pages, pagesJson, reportJson, orderer, ordered, heap>>

refVars == <<schema, bindings, info>>

queryVars == <<qpages, model, result, contrib>>

layoutVars == <<visualSrc, splitRec, layoutRec>>

tmdlVars == <<lines, line_no, scan>>

dirVars == <<reportDir, found>>

vars == <<pc, orderVars, refVars, queryVars, layoutVars, tmdlVars, dirVars>>

(***************************************************************************)
(* Generic sequence helpers (Python list semantics)                        *)
(***************************************************************************)
SeqsUpTo(S, n) == UNION {[1..k -> S] : k \in 0..n}

Range(s) == {s[i] : i \in 1..Len(s)}

Min2(a, b) == IF a <= b THEN a ELSE b

Max2(a, b) == IF a >= b THEN a ELSE b

\* [x for x in s if Keep(x)]
FilterSeq(s, Keep(_)) ==
    LET F[i \in 0..Len(s)] ==
            IF i = 0 THEN <<>>
            ELSE IF Keep(s[i]) THEN Append(F[i - 1], s[i]) ELSE F[i - 1]
    IN F[Len(s)]

\* list.remove(x): drops the first element equal to x
RECURSIVE RemoveFirst(_, _)
RemoveFirst(s, x) ==
    IF s = <<>> THEN <<>>
    ELSE IF Head(s) = x THEN Tail(s)
    ELSE <<Head(s)>> \o RemoveFirst(Tail(s), x)

\* Insert x behind every element whose key is <= Key(x): one step of a
\* stable sort of an already sorted prefix.
InsertStable(sortedSeq, x, Key(_)) ==
    LET k == Cardinality({j \in 1..Len(sortedSeq) : Key(sortedSeq[j]) <= Key(x)})
    IN SubSeq(sortedSeq, 1, k) \o <<x>> \o SubSeq(sortedSeq, k + 1, Len(sortedSeq))

\* sorted(s, key=Key) and list.sort(key=Key): Python's sort is stable.
StableSortBy(s, Key(_)) ==
    LET F[i \in 0..Len(s)] ==
            IF i = 0 THEN <<>> ELSE InsertStable(F[i - 1], s[i], Key)
    IN F[Len(s)]

(***************************************************************************)
(* Text helpers: str methods and the regular expressions of _norm          *)
(***************************************************************************)
LowerLetters == {"a", "b", "c", "d", "g", "m", "n", "p", "s", "u", "v", "z"}

UpperLetters == {"A", "B", "G", "S", "T", "U"}

\* \w of the re module, restricted to the alphabet of the model
IsWordChar(c) == c \in LowerLetters \cup UpperLetters \cup {"_"}

\* \s of the re module
IsSpaceChar(c) == c = " "

\* str.lower(), one character
LowerChar(c) ==
    CASE c = "A" -> "a"
      [] c = "B" -> "b"
      [] c = "G" -> "g"
      [] c = "S" -> "s"
      [] c = "T" -> "t"
      [] c = "U" -> "u"
      [] OTHER -> c

MapChars(s, F(_)) == [i \in 1..Len(s) |-> F(s[i])]

StripLeft(s, Drop(_)) ==
    LET kept == {i \in 1..Len(s) : ~Drop(s[i])}
    IN IF kept = {} THEN <<>>
       ELSE SubSeq(s, CHOOSE i \in kept : \A j \in kept : i <= j, Len(s))

StripRight(s, Drop(_)) ==
    LET kept == {i \in 1..Len(s) : ~Drop(s[i])}
    IN IF kept = {} THEN <<>>
       ELSE SubSeq(s, 1, CHOOSE i \in kept : \A j \in kept : i >= j)

\* str.strip() and str.strip(chars)
Strip(s, Drop(_)) == StripRight(StripLeft(s, Drop), Drop)

\* re.sub(r'[\s_]+', '_', s): every maximal run of blanks/underscores
\* becomes one underscore
RECURSIVE CollapseRuns(_)
CollapseRuns(s) ==
    IF s = <<>> THEN <<>>
    ELSE IF IsSpaceChar(Head(s)) \/ Head(s) = "_"
         THEN <<"_">> \o CollapseRuns(StripLeft(s, LAMBDA c : IsSpaceChar(c) \/ c = "_"))
         ELSE <<Head(s)>> \o CollapseRuns(Tail(s))

\* str.split(sep) for a one-character separator: empty pieces are kept
RECURSIVE SplitOn(_, _)
SplitOn(s, sep) ==
    IF \A i \in 1..Len(s) : s[i] # sep THEN <<s>>
    ELSE LET k == CHOOSE i \in 1..Len(s) :
                     s[i] = sep /\ \A j \in 1..(i - 1) : s[j] # sep
         IN <<SubSeq(s, 1, k - 1)>> \o SplitOn(SubSeq(s, k + 1, Len(s)), sep)

\* _norm of _order_pages_by_resource_packages
_norm(s) ==
    LET s1 == MapChars(s, LAMBDA c : IF IsWordChar(c) \/ IsSpaceChar(c) THEN c ELSE " ")
        s2 == Strip(MapChars(s1, LowerChar), IsSpaceChar)
        s3 == CollapseRuns(s2)
    IN Strip(s3, LAMBDA c : c = "_")

\* Scores are fractions common/max(len); they are kept as integers scaled by
\* ScoreScale, a common multiple of every word length up to 6.
ScoreScale == 60

RECURSIVE CommonPrefix(_, _)
CommonPrefix(w1, w2) ==
    IF w1 = <<>> \/ w2 = <<>> \/ Head(w1) # Head(w2) THEN 0
    ELSE 1 + CommonPrefix(Tail(w1), Tail(w2))

\* _word_sim
_word_sim(w1, w2) ==
    IF w1 = w2 THEN ScoreScale
    ELSE (CommonPrefix(w1, w2) * ScoreScale) \div Max2(Len(w1), Len(w2))

\* max(F(x) for x in s, default=default)
MaxOver(s, F(_), default) ==
    IF s = <<>> THEN default
    ELSE LET i == CHOOSE j \in 1..Len(s) : \A k \in 1..Len(s) : F(s[j]) >= F(s[k])
         IN F(s[i])

\* sum(F(x) for x in s)
SumOver(s, F(_)) ==
    LET G[i \in 0..Len(s)] == IF i = 0 THEN 0 ELSE G[i - 1] + F(s[i])
    IN G[Len(s)]

\* _overlap_score
_overlap_score(page_norm, png_stem) ==
    LET page_words == SplitOn(page_norm, "_")
        png_words  == SplitOn(png_stem, "_")
    IN SumOver(page_words,
               LAMBDA pw : MaxOver(png_words, LAMBDA sw : _word_sim(pw, sw), 0))

\* sub in s (substring test of str)
Contains(s, sub) ==
    \E i \in 1..(Len(s) - Len(sub) + 1) : SubSeq(s, i, i + Len(sub) - 1) = sub

\* s.endswith(suffix)
EndsWith(s, suffix) ==
    Len(s) >= Len(suffix) /\ SubSeq(s, Len(s) - Len(suffix) + 1, Len(s)) = suffix

(***************************************************************************)
(* Page orderer                                                            *)
(*                                                                         *)
(* A page dict is [name, display_name, ordinal]; is_hidden and visuals are *)
(* carried along untouched by every orderer and are left out.  The page    *)
(* list handed to an orderer is the index list <<1, .., N>> into the heap  *)
(* of page dicts.                                                          *)
(***************************************************************************)
\* page_cfg.get('ordinal', 999)
DefaultOrdinal == 999

\* order_map.get(p['name'], 9999)
AbsentKey == 9999

Identity(n) == [i \in 1..n |-> i]

\* Variant: order_map.get(name, 0), absent pages tie with the first entry
OrderMapGet_AbsentFirst(page_order, name, default) ==
    LET at == {i \in 1..Len(page_order) : page_order[i] = name}
    IN IF at = {} THEN 0
       ELSE (CHOOSE i \in at : \A j \in at : i >= j) - 1

\* order_map = {name: i for i, name in enumerate(page_order)}, read with a
\* default: a repeated name keeps the index of its last occurrence.
OrderMapGet(page_order, name, default) ==
    LET at == {i \in 1..Len(page_order) : page_order[i] = name}
    IN IF at = {} THEN default
       ELSE (CHOOSE i \in at : \A j \in at : i >= j) - 1

\* for i, p in enumerate(lst): p['ordinal'] = i
\* The dicts are shared: a dict that is listed twice keeps the last stamp.
StampOrdinals(h, lst) ==
    [k \in DOMAIN h |->
        LET at == {i \in 1..Len(lst) : lst[i] = k}
        IN IF at = {} THEN h[k]
           ELSE [h[k] EXCEPT !.ordinal = (CHOOSE i \in at : \A j \in at : i >= j) - 1]]

\* The returned list together with the dicts stamped in its order
StampOrdered(h, ordered_pages) ==
    [lst |-> ordered_pages, heap |-> StampOrdinals(h, ordered_pages)]

\* pages.sort(key=lambda p: p['ordinal'])
SortByOrdinal(h, lst) == StableSortBy(lst, LAMBDA k : h[k].ordinal)

\* sorted(pages, key=lambda p: order_map.get(p['name'], 9999)) followed by
\* the ordinal stamping loop
SortByPageOrder(h, lst, page_order) ==
    StampOrdered(h, StableSortBy(lst,
                        LAMBDA k : OrderMapGet(page_order, h[k].name, AbsentKey)))

\* _order_pages_by_pages_json(pages, pages_json_path)
_order_pages_by_pages_json(h, lst, pj) ==
    IF pj.kind = "unreadable" THEN [lst |-> lst, heap |-> h]
    ELSE IF pj.pageOrder = <<>> THEN [lst |-> lst, heap |-> h]
    ELSE SortByPageOrder(h, lst, pj.pageOrder)

\* png_order of _order_pages_by_resource_packages: the stems of the PNG
\* images registered in the RegisteredResources packages, icons skipped
PngOrder(items) ==
    LET F[i \in 0..Len(items)] ==
            IF i = 0 THEN <<>>
            ELSE IF /\ items[i].pkg = "RegisteredResources"
                    /\ items[i].type = "Image"
                    /\ EndsWith(items[i].name, <<".", "p", "n", "g">>)
                    /\ ~Contains(items[i].name, <<".", "s", "v", "g">>)
                 THEN Append(F[i - 1], SubSeq(items[i].name, 1, Len(items[i].name) - 4))
                 ELSE F[i - 1]
    IN F[Len(items)]

\* page_by_norm = {_norm(p['display_name']): p for p in pages}, as a lookup:
\* the last page with that normalised name, 0 when there is none
PageByNorm(h, lst, key) ==
    LET at == {i \in 1..Len(lst) : _norm(h[lst[i]].display_name) = key}
    IN IF at = {} THEN 0 ELSE lst[CHOOSE i \in at : \A j \in at : i >= j]

\* Pass 1: result[idx] = page_by_norm[stem] for the stems that are keys
ExactPass(h, lst, png_order) ==
    [idx \in 1..Len(png_order) |-> PageByNorm(h, lst, png_order[idx])]

\* Variant: of several highest keys the last one is taken
FirstMax_LastOfTies(scores) ==
    CHOOSE j \in 1..Len(scores) :
        /\ \A m \in 1..Len(scores) : scores[j] >= scores[m]
        /\ \A m \in (j + 1)..Len(scores) : scores[m] < scores[j]

\* max(...) over a sequence of keys: the index of the first highest one
FirstMax(scores) ==
    CHOOSE j \in 1..Len(scores) :
        /\ \A m \in 1..Len(scores) : scores[j] >= scores[m]
        /\ \A m \in 1..(j - 1) : scores[m] < scores[j]

\* max(unmatched, key=lambda p: _overlap_score(_norm(p['display_name']), stem))
BestPage(h, unmatched, stem) ==
    unmatched[FirstMax([j \in 1..Len(unmatched) |->
                           _overlap_score(_norm(h[unmatched[j]].display_name), stem)])]

\* result[idx] = best_page; unmatched.remove(best_page)
TakeBest(prev, idx, best_page) ==
    [result    |-> [prev.result EXCEPT ![idx] = best_page],
     unmatched |-> RemoveFirst(prev.unmatched, best_page)]

\* Pass 2: every slot left empty by pass 1 takes, in slot order, the best
\* page among those still unmatched.  Yields the slots and the remainder.
OverlapPass(h, png_order, slots, unmatched0) ==
    LET F[idx \in 0..Len(png_order)] ==
            IF idx = 0 THEN [result |-> slots, unmatched |-> unmatched0]
            ELSE IF F[idx - 1].result[idx] # 0 \/ F[idx - 1].unmatched = <<>>
                 THEN F[idx - 1]
                 ELSE TakeBest(F[idx - 1], idx,
                               BestPage(h, F[idx - 1].unmatched, png_order[idx]))
    IN F[Len(png_order)]

\* unmatched = [p for p in pages if _norm(p['display_name']) not in matched_norms],
\* matched_norms being the stems whose slot pass 1 filled
UnmatchedAfterExact(h, lst, png_order, slots1) ==
    FilterSeq(lst, LAMBDA k :
        \A j \in 1..Len(png_order) :
            slots1[j] # 0 => _norm(h[k].display_name) # png_order[j])

\* ordered = [p for p in result if p is not None]; ordered.extend(unmatched)
OrderedPages(pass2) ==
    FilterSeq(pass2.result, LAMBDA k : k # 0) \o pass2.unmatched

\* The two matching passes and the stamping loop, for a non-empty png_order
MatchPages(h, lst, png_order, slots1) ==
    StampOrdered(h, OrderedPages(
        OverlapPass(h, png_order, slots1,
                    UnmatchedAfterExact(h, lst, png_order, slots1))))

\* The body of _order_pages_by_resource_packages behind the png_order scan
OrderByPngOrder(h, lst, png_order) ==
    IF png_order = <<>> THEN [lst |-> lst, heap |-> h]
    ELSE MatchPages(h, lst, png_order, ExactPass(h, lst, png_order))

\* _order_pages_by_resource_packages(pages, report_json_path)
_order_pages_by_resource_packages(h, lst, rj) ==
    IF rj.kind = "unreadable" THEN [lst |-> lst, heap |-> h]
    ELSE OrderByPngOrder(h, lst, PngOrder(rj.items))

\* Variant: the image-resource manifest is consulted before the explicit one
OrderDiscovered_ImageFirst(h, lst, pj, rj) ==
    IF rj.kind # "absent" THEN _order_pages_by_resource_packages(h, lst, rj)
    ELSE IF pj.kind # "absent" THEN _order_pages_by_pages_json(h, lst, pj)
    ELSE [lst |-> SortByOrdinal(h, lst), heap |-> h]

\* Ordering tail of discover_report_pages
OrderDiscovered(h, lst, pj, rj) ==
    IF pj.kind # "absent" THEN _order_pages_by_pages_json(h, lst, pj)
    ELSE IF rj.kind # "absent" THEN _order_pages_by_resource_packages(h, lst, rj)
    ELSE [lst |-> SortByOrdinal(h, lst), heap |-> h]

\* _order_pages(zf, pages) of the archive extractor
_order_pages(h, lst, pj) ==
    IF pj.kind = "ok" /\ pj.pageOrder # <<>>
    THEN SortByPageOrder(h, lst, pj.pageOrder)
    ELSE [lst |-> SortByOrdinal(h, lst), heap |-> h]

\* The variables of the components a specification does not exercise
OrderIdle ==
    /\ pages = <<>> /\ heap = <<>> /\ ordered = <<>> /\ orderer = "none"
    /\ pagesJson = [kind |-> "absent"] /\ reportJson = [kind |-> "absent"]

RefsIdle ==
    schema = "none" /\ bindings = <<>> /\ info = [measures |-> <<>>, columns |-> <<>>]

QueryIdle ==
    qpages = <<>> /\ model = <<>> /\ result = <<>> /\ contrib = <<>>

LayoutIdle ==
    visualSrc = <<>> /\ splitRec = <<>> /\ layoutRec = <<>>

TmdlIdle ==
    lines = <<>> /\ line_no = 0 /\ scan = <<>>

DirIdle ==
    reportDir = <<>> /\ found = [kind |-> "none"]

(***************************************************************************)
(* Inputs of the orderer                                                   *)
(***************************************************************************)
\* Longest pageOrder array of an explicit order manifest
MaxOrderLen == 2

\* Most resource items of an image-resource manifest
MaxItems == 2

\* Folder / entry names of the discovered pages, in discovery order
PageNames == <<"p1", "p2", "p3">>

\* Identifiers an order manifest may list: the pages and a stale entry
ManifestIds == Range(PageNames) \cup {"px"}

DisplayNames ==
    { <<"A", " ", "b">>, <<"a", "-", "b">>, <<"a", " ", "c">>, <<"g">> }

Ordinals == {0, 1, DefaultOrdinal}

PngImage(stem) ==
    [pkg |-> "RegisteredResources", type |-> "Image", name |-> stem \o <<".", "p", "n", "g">>]

ResourceItems ==
    { PngImage(<<"a", "_", "b">>), PngImage(<<"A", "_", "b">>), PngImage(<<"z">>),
      PngImage(<<"z", ".", "s", "v", "g">>) }

\* Page lists of n pages: the i-th discovered page has the i-th name
PageListsOver(names, ordinals) ==
    UNION { { [i \in 1..n |-> [name |-> PageNames[i],
                               display_name |-> d[i],
                               ordinal |-> o[i]]] :
                d \in [1..n -> names], o \in [1..n -> ordinals] } :
            n \in 0..Len(PageNames) }

PagesJsonPresent ==
    {[kind |-> "unreadable"]}
        \cup {[kind |-> "ok", pageOrder |-> po] : po \in SeqsUpTo(ManifestIds, MaxOrderLen)}

ReportJsonPresent ==
    {[kind |-> "unreadable"]}
        \cup {[kind |-> "ok", items |-> it] : it \in SeqsUpTo(ResourceItems, MaxItems)}

\* With an order manifest on disk the image-resource manifest is never
\* opened; it is paired with a few image manifests only.
ReportJsonSample ==
    { [kind |-> "absent"], [kind |-> "unreadable"],
      [kind |-> "ok", items |-> <<PngImage(<<"z">>), PngImage(<<"a", "_", "b">>)>>] }

\* Image-resource manifests that yield no page image: the list is returned
\* as discovered
ReportJsonUnusable ==
    { [kind |-> "unreadable"], [kind |-> "ok", items |-> <<>>],
      [kind |-> "ok", items |-> <<PngImage(<<"z", ".", "s", "v", "g">>)>>] }

\* Families of inputs: an order manifest on disk; no order manifest but an
\* image-resource manifest, where the declared ordinals are read only when
\* the manifest yields no page image; neither of them.
InitOrder ==
    /\ pc = "discovered"
    /\ \/ /\ pagesJson \in PagesJsonPresent
          /\ reportJson \in ReportJsonSample
          /\ pages \in PageListsOver({<<"A", " ", "b">>, <<"g">>}, {0, 1})
       \/ /\ pagesJson = [kind |-> "absent"]
          /\ reportJson \in ReportJsonPresent
          /\ pages \in PageListsOver(DisplayNames, {DefaultOrdinal})
       \/ /\ pagesJson = [kind |-> "absent"]
          /\ reportJson \in ReportJsonUnusable
          /\ pages \in PageListsOver({<<"g">>}, Ordinals)
       \/ /\ pagesJson = [kind |-> "absent"]
          /\ reportJson = [kind |-> "absent"]
          /\ pages \in PageListsOver({<<"g">>}, Ordinals)
    /\ orderer = "none"
    /\ ordered = <<>>
    /\ heap = pages
    /\ RefsIdle
    /\ QueryIdle
    /\ LayoutIdle
    /\ TmdlIdle
    /\ DirIdle

\* discover_report_pages, from the discovered list to the returned list
DiscoverReportPages ==
    /\ pc = "discovered"
    /\ LET r == OrderDiscovered(pages, Identity(Len(pages)), pagesJson, reportJson)
       IN /\ ordered' = r.lst
          /\ heap' = r.heap
    /\ orderer' = "directory"
    /\ pc' = "ordered"
    /\ UNCHANGED <<pages, pagesJson, reportJson, refVars, queryVars, layoutVars, tmdlVars, dirVars>>

\* _order_pages of the archive extractor; an archive has no image-resource
\* ordering, report.json is not consulted
OrderPages ==
    /\ pc = "discovered"
    /\ LET r == _order_pages(pages, Identity(Len(pages)), pagesJson)
       IN /\ ordered' = r.lst
          /\ heap' = r.heap
    /\ orderer' = "archive"
    /\ pc' = "ordered"
    /\ UNCHANGED <<pages, pagesJson, reportJson, refVars, queryVars, layoutVars, tmdlVars, dirVars>>

NextOrder == DiscoverReportPages \/ OrderPages

SpecOrder == InitOrder /\ [][NextOrder]_vars

\* The returned page list: the dicts the returned list refers to
Returned == [i \in 1..Len(ordered) |-> heap[ordered[i]]]

(***************************************************************************)
(* Claims about the page orderer                                           *)
(***************************************************************************)
ExplicitApplicable == pagesJson.kind = "ok" /\ pagesJson.pageOrder # <<>>

ImageApplicable ==
    /\ orderer = "directory"
    /\ reportJson.kind = "ok"
    /\ PngOrder(reportJson.items) # <<>>

IsPermutationOfPages ==
    /\ Len(ordered) = Len(pages)
    /\ Range(ordered) = 1..Len(pages)

Listed(k) == pages[k].name \in Range(pagesJson.pageOrder)

\* C1: whatever the manifests are, the returned list has one entry per
\* discovered page and the page at position i carries ordinal i (0-based).
C1_OrdinalsTotal ==
    pc = "ordered" =>
        /\ Len(ordered) = Len(pages)
        /\ \A i \in 1..Len(ordered) : Returned[i].ordinal = i - 1

\* C2: with a non-empty explicit order manifest and an image-resource
\* manifest both present, the directory orderer returns the pages in the
\* manifest's order, and any other image-resource manifest gives the same
\* result.
C2_ExplicitManifestWins ==
    (pc = "ordered" /\ orderer = "directory" /\ ExplicitApplicable
        /\ reportJson.kind # "absent") =>
        /\ \A i, j \in 1..Len(ordered) :
               (i < j /\ Listed(ordered[i]) /\ Listed(ordered[j])) =>
                   \E a, b \in 1..Len(pagesJson.pageOrder) :
                       /\ a < b
                       /\ pagesJson.pageOrder[a] = pages[ordered[i]].name
                       /\ pagesJson.pageOrder[b] = pages[ordered[j]].name
        /\ \A rj \in ReportJsonPresent :
               OrderDiscovered(pages, Identity(Len(pages)), pagesJson, rj)
                   = [lst |-> ordered, heap |-> heap]

C2_Witness ==
    /\ pc = "ordered" /\ orderer = "directory" /\ ExplicitApplicable
    /\ reportJson.kind = "ok"
    /\ PngOrder(reportJson.items) # <<>>
    /\ Len(pages) = 3
    /\ ordered # Identity(3)
    /\ ordered # _order_pages_by_resource_packages(pages, Identity(3), reportJson).lst

\* C3: the first applicable signal decides (explicit manifest, then image
\* resources, then declared ordinal); when neither manifest supplies an
\* order the returned pages are sorted by declared ordinal.
C3_FallbackChain ==
    pc = "ordered" =>
        IF ExplicitApplicable
        THEN ordered = SortByPageOrder(pages, Identity(Len(pages)), pagesJson.pageOrder).lst
        ELSE IF ImageApplicable
        THEN ordered = _order_pages_by_resource_packages(pages, Identity(Len(pages)), reportJson).lst
        ELSE /\ IsPermutationOfPages
             /\ \A i, j \in 1..Len(ordered) :
                    i < j => pages[ordered[i]].ordinal <= pages[ordered[j]].ordinal

\* C4: under a non-empty explicit manifest the listed pages come out in the
\* order of their entries in the list, every page absent from the list comes
\* after all listed pages, and the absent pages keep discovery order.
C4_ManifestOrder ==
    (pc = "ordered" /\ ExplicitApplicable) =>
        /\ IsPermutationOfPages
        /\ \A i, j \in 1..Len(ordered) :
               i < j =>
                   /\ (Listed(ordered[i]) /\ Listed(ordered[j])) =>
                          \E a, b \in 1..Len(pagesJson.pageOrder) :
                              /\ a < b
                              /\ pagesJson.pageOrder[a] = pages[ordered[i]].name
                              /\ pagesJson.pageOrder[b] = pages[ordered[j]].name
                   /\ ~Listed(ordered[i]) => ~Listed(ordered[j])
                   /\ (~Listed(ordered[i]) /\ ~Listed(ordered[j])) => ordered[i] < ordered[j]

C4_Witness ==
    /\ pc = "ordered" /\ ExplicitApplicable
    /\ Len(pages) = 3
    /\ ordered = <<3, 1, 2>>
    /\ Listed(3) /\ ~Listed(1) /\ ~Listed(2)

\* A page is unmatched when no image identifier equals its display name
\* after normalisation and its word-overlap score is zero against all.
Unmatched(k) ==
    \A i \in 1..Len(PngOrder(reportJson.items)) :
        LET stem == PngOrder(reportJson.items)[i]
        IN /\ _norm(pages[k].display_name) # _norm(stem)
           /\ _overlap_score(_norm(pages[k].display_name), stem) = 0

\* A page is certainly matched when an image identifier is its normalised
\* display name.
ExactlyMatched(k) ==
    \E i \in 1..Len(PngOrder(reportJson.items)) :
        _norm(pages[k].display_name) = PngOrder(reportJson.items)[i]

\* C5: under the image-resource heuristic an unmatched page is returned
\* with its position as ordinal, it never precedes a page that an image
\* identifier names exactly, and unmatched pages keep their discovery order.
C5_UnmatchedLast ==
    (pc = "ordered" /\ pagesJson.kind = "absent" /\ ImageApplicable) =>
        /\ \A k \in 1..Len(pages) :
               Unmatched(k) =>
                   \E i \in 1..Len(ordered) : ordered[i] = k /\ Returned[i].ordinal = i - 1
        /\ \A i, j \in 1..Len(ordered) :
               (i < j /\ Unmatched(ordered[i])) =>
                   /\ ~ExactlyMatched(ordered[j])
                   /\ Unmatched(ordered[j]) => ordered[i] < ordered[j]

(***************************************************************************)
(* Visual-binding resolver                                                 *)
(*                                                                         *)
(* The projections of one visual are a sequence in document order (roles   *)
(* of queryState / projections in key order, projections in list order).   *)
(* A modern projection is [role, kind, entity, prop, level], kind being    *)
(* the key of its field dict; a legacy projection is [role, queryRef].     *)
(* A field reference is [name, entity].                                    *)
(***************************************************************************)
_MEASURE_ROLES ==
    { "Y", "Values", "Tooltips", "Size", "Color", "Details",
      "TargetValue", "TrendLine", "Indicator", "Goal",
      "KPIIndicatorValue", "KPIStatus", "KPITrend" }

\* display = f"{prop} ({level})" if level else prop
HierarchyDisplay(prop, level) ==
    IF level # <<>> THEN prop \o <<" ", "(">> \o level \o <<")">> ELSE prop

\* Variant: the `key not in seen` test is missing
AddRef_NoSeen(st, toMeasures, entity, name) ==
    IF entity # <<>> /\ name # <<>>
    THEN IF toMeasures
         THEN [st EXCEPT !.seen = @ \cup {<<entity, name>>},
                         !.measures = Append(@, [name |-> name, entity |-> entity])]
         ELSE [st EXCEPT !.seen = @ \cup {<<entity, name>>},
                         !.columns = Append(@, [name |-> name, entity |-> entity])]
    ELSE st

\* if entity and prop and key not in seen: seen.add(key); lst.append(...)
AddRef(st, toMeasures, entity, name) ==
    IF entity # <<>> /\ name # <<>> /\ <<entity, name>> \notin st.seen
    THEN IF toMeasures
         THEN [st EXCEPT !.seen = @ \cup {<<entity, name>>},
                         !.measures = Append(@, [name |-> name, entity |-> entity])]
         ELSE [st EXCEPT !.seen = @ \cup {<<entity, name>>},
                         !.columns = Append(@, [name |-> name, entity |-> entity])]
    ELSE st

\* Body of the projection loop of _extract_field_refs_v2.  A projection
\* that is not a dict raises; _parse_visual_json swallows the exception and
\* the loop is over.
RefStepV2(st, proj) ==
    IF st.raised THEN st
    ELSE CASE proj.kind = "NotADict"       -> [st EXCEPT !.raised = TRUE]
           [] proj.kind = "Measure"        -> AddRef(st, TRUE, proj.entity, proj.prop)
           [] proj.kind = "Column"         -> AddRef(st, FALSE, proj.entity, proj.prop)
           [] proj.kind = "Aggregation"    -> AddRef(st, FALSE, proj.entity, proj.prop)
           [] proj.kind = "HierarchyLevel" ->
                  AddRef(st, FALSE, proj.entity, HierarchyDisplay(proj.prop, proj.level))
           [] OTHER                        -> st

\* _extract_field_refs_v2(query_state, info), called by _parse_visual_json
_extract_field_refs_v2(projs) ==
    LET F[i \in 0..Len(projs)] ==
            IF i = 0
            THEN [measures |-> <<>>, columns |-> <<>>, seen |-> {}, raised |-> FALSE]
            ELSE RefStepV2(F[i - 1], projs[i])
    IN [measures |-> F[Len(projs)].measures, columns |-> F[Len(projs)].columns]

\* re.match(r'^\w+\((.+)\)$', inner): the positions of the opening
\* parenthesis the pattern can match at
AggOpen(stripped) ==
    IF stripped # <<>> /\ stripped[Len(stripped)] = ")"
    THEN {k \in 2..(Len(stripped) - 2) :
             /\ stripped[k] = "("
             /\ \A j \in 1..(k - 1) : IsWordChar(stripped[j])}
    ELSE {}

\* entity, prop = inner.split('.', 1) if '.' in inner, else ('', inner)
SplitEntityProp(inner, is_agg) ==
    IF Contains(inner, <<".">>)
    THEN LET k == CHOOSE i \in 1..Len(inner) :
                      inner[i] = "." /\ \A j \in 1..(i - 1) : inner[j] # "."
         IN [entity |-> Strip(SubSeq(inner, 1, k - 1), IsSpaceChar),
             prop   |-> Strip(SubSeq(inner, k + 1, Len(inner)), IsSpaceChar),
             is_agg |-> is_agg]
    ELSE [entity |-> <<>>, prop |-> Strip(inner, IsSpaceChar), is_agg |-> is_agg]

\* inner = agg_match.group(1) if agg_match else the stripped reference
ParseStripped(stripped, open) ==
    IF open # {}
    THEN SplitEntityProp(
             SubSeq(stripped, (CHOOSE k \in open : TRUE) + 1, Len(stripped) - 1), TRUE)
    ELSE SplitEntityProp(stripped, FALSE)

\* _parse_queryref(query_ref): (entity, property, is_aggregation)
_parse_queryref(query_ref) ==
    ParseStripped(Strip(query_ref, IsSpaceChar), AggOpen(Strip(query_ref, IsSpaceChar)))

\* Appends the parsed reference r of a projection of the given role
AddLegacyRef(st, role, r) ==
    IF <<r.entity, r.prop>> \in st.seen \/ r.prop = <<>> THEN st
    ELSE IF role \in _MEASURE_ROLES \/ r.is_agg
    THEN [st EXCEPT !.seen = @ \cup {<<r.entity, r.prop>>},
                    !.measures = Append(@, [name |-> r.prop, entity |-> r.entity])]
    ELSE [st EXCEPT !.seen = @ \cup {<<r.entity, r.prop>>},
                    !.columns = Append(@, [name |-> r.prop, entity |-> r.entity])]

\* Body of the projection loop of _discover_pages_from_layout
RefStepLegacy(st, item) ==
    IF item.queryRef = <<>> THEN st
    ELSE AddLegacyRef(st, item.role, _parse_queryref(item.queryRef))

\* Field bindings of one visual container in _discover_pages_from_layout
LegacyFieldRefs(items) ==
    LET F[i \in 0..Len(items)] ==
            IF i = 0
            THEN [measures |-> <<>>, columns |-> <<>>, seen |-> {}]
            ELSE RefStepLegacy(F[i - 1], items[i])
    IN [measures |-> F[Len(items)].measures, columns |-> F[Len(items)].columns]

(***************************************************************************)
(* Inputs of the resolver                                                  *)
(***************************************************************************)
\* Most projections of one visual
MaxBindings == 3

Proj(role, kind, entity, prop, level) ==
    [role |-> role, kind |-> kind, entity |-> entity, prop |-> prop, level |-> level]

ModernProjections ==
    { Proj("Y", "Measure", <<"T">>, <<"m">>, <<>>),
      Proj("Y", "Measure", <<"T">>, <<"n">>, <<>>),
      Proj("Y", "Measure", <<>>, <<"m">>, <<>>),
      Proj("Y", "Aggregation", <<"T">>, <<"c">>, <<>>),
      Proj("Y", "Aggregation", <<"T">>, <<"m">>, <<>>),
      Proj("Values", "Column", <<"T">>, <<"k">>, <<>>),
      Proj("Category", "Measure", <<"T">>, <<"r">>, <<>>),
      Proj("Category", "Column", <<"T">>, <<"c">>, <<>>),
      Proj("Category", "Column", <<"T">>, <<"c", " ", "(", "d", ")">>, <<>>),
      Proj("Category", "HierarchyLevel", <<"T">>, <<"c">>, <<"d">>),
      Proj("Category", "NotADict", <<>>, <<>>, <<>>),
      Proj("Category", "Unrecognized", <<"T">>, <<"c">>, <<>>) }

QRef(role, queryRef) == [role |-> role, queryRef |-> queryRef]

LegacyProjections ==
    { QRef("Y", <<"T", ".", "m">>),
      QRef("Y", <<"T", ".", "n">>),
      QRef("Y", <<" ", "T", ".", "m">>),
      QRef("Y", <<"S", "u", "m", "(", "T", ".", "c", ")">>),
      QRef("Category", <<"T", ".", "c">>),
      QRef("Category", <<"T", ".", "m">>),
      QRef("Category", <<"S", "u", "m", "(", "T", ".", "c", ")">>),
      QRef("Category", <<"c">>),
      QRef("Category", <<>>) }

\* Roles are dict keys: the projections of one role are contiguous
GroupedByRole(projs) ==
    \A i, j \in 1..Len(projs) :
        (i < j /\ projs[i].role = projs[j].role) =>
            \A k \in i..j : projs[k].role = projs[i].role

InitRefs ==
    /\ pc = "bound"
    /\ \/ schema = "modern" /\ bindings \in SeqsUpTo(ModernProjections, MaxBindings)
       \/ schema = "legacy" /\ bindings \in SeqsUpTo(LegacyProjections, MaxBindings)
    /\ GroupedByRole(bindings)
    /\ info = [measures |-> <<>>, columns |-> <<>>]
    /\ OrderIdle
    /\ QueryIdle
    /\ LayoutIdle
    /\ TmdlIdle
    /\ DirIdle

\* _parse_visual_json: the field bindings of a modern visual manifest
ParseVisualJson ==
    /\ pc = "bound" /\ schema = "modern"
    /\ info' = _extract_field_refs_v2(bindings)
    /\ pc' = "resolved"
    /\ UNCHANGED <<schema, bindings, orderVars, queryVars, layoutVars, tmdlVars, dirVars>>

\* _discover_pages_from_layout: the field bindings of a legacy container
DiscoverPagesFromLayout ==
    /\ pc = "bound" /\ schema = "legacy"
    /\ info' = LegacyFieldRefs(bindings)
    /\ pc' = "resolved"
    /\ UNCHANGED <<schema, bindings, orderVars, queryVars, layoutVars, tmdlVars, dirVars>>

NextRefs == ParseVisualJson \/ DiscoverPagesFromLayout

SpecRefs == InitRefs /\ [][NextRefs]_vars

(***************************************************************************)
(* Claims about the visual-binding resolver                                *)
(***************************************************************************)
\* The (entity, resolved property name) pair a projection stands for;
\* <<>> for a projection that names no field
ResolvedPair(b) ==
    IF schema = "legacy"
    THEN IF b.queryRef = <<>> THEN <<>>
         ELSE <<_parse_queryref(b.queryRef).entity, _parse_queryref(b.queryRef).prop>>
    ELSE CASE b.kind \in {"Measure", "Column", "Aggregation"} -> <<b.entity, b.prop>>
           [] b.kind = "HierarchyLevel" -> <<b.entity, HierarchyDisplay(b.prop, b.level)>>
           [] OTHER -> <<>>

PairOf(ref) == <<ref.entity, ref.name>>

FirstOccurrence(pair) ==
    LET at == {i \in 1..Len(bindings) : ResolvedPair(bindings[i]) = pair}
    IN IF at = {} THEN 0 ELSE CHOOSE i \in at : \A j \in at : i <= j

InFirstOccurrenceOrder(refs) ==
    \A i, j \in 1..Len(refs) :
        i < j =>
            /\ PairOf(refs[i]) # PairOf(refs[j])
            /\ FirstOccurrence(PairOf(refs[i])) > 0
            /\ FirstOccurrence(PairOf(refs[i])) < FirstOccurrence(PairOf(refs[j]))

\* C8: in either schema generation no (entity, resolved property) pair is
\* recorded twice in the measure list or twice in the dimension list, and
\* each list is in the order of first occurrence in the bindings.
C8_FieldRefsDeduplicated ==
    pc = "resolved" =>
        /\ InFirstOccurrenceOrder(info.measures)
        /\ InFirstOccurrenceOrder(info.columns)

HasRepeatedPair ==
    \E i, j \in 1..Len(bindings) :
        /\ i < j
        /\ ResolvedPair(bindings[i]) # <<>>
        /\ ResolvedPair(bindings[i]) = ResolvedPair(bindings[j])
        /\ bindings[i] # bindings[j]

C8_Witness ==
    /\ pc = "resolved" /\ schema = "modern"
    /\ HasRepeatedPair
    /\ Len(bindings) = 3
    /\ Len(info.measures) = 1 /\ Len(info.columns) = 1

C8_WitnessLegacy ==
    /\ pc = "resolved" /\ schema = "legacy"
    /\ HasRepeatedPair
    /\ Len(info.measures) + Len(info.columns) = 2

\* An implicit aggregation wrapping a plain column
IsAggregationBinding(b) ==
    IF schema = "legacy" THEN b.queryRef # <<>> /\ _parse_queryref(b.queryRef).is_agg
    ELSE b.kind = "Aggregation"

\* An explicit measure reference: a Measure field, or a plain query
\* reference bound in a measure role
IsMeasureBinding(b) ==
    IF schema = "legacy"
    THEN /\ b.queryRef # <<>>
         /\ ~_parse_queryref(b.queryRef).is_agg
         /\ b.role \in _MEASURE_ROLES
    ELSE b.kind = "Measure"

RecordedIn(refs, pair) == \E k \in 1..Len(refs) : PairOf(refs[k]) = pair

\* The binding names no usable field, or the modern extraction was over
\* before it was reached
NotExtracted(i) ==
    \/ ResolvedPair(bindings[i])[2] = <<>>
    \/ schema = "modern" /\ ResolvedPair(bindings[i])[1] = <<>>
    \/ schema = "modern" /\ \E j \in 1..(i - 1) : bindings[j].kind = "NotADict"

\* C13: in both schema generations an implicit aggregation of a plain
\* column is recorded in the dimension list and never in the measure list,
\* and an explicit measure reference is recorded in the measure list.
C13_AggregationIsDimension ==
    pc = "resolved" =>
        \A i \in 1..Len(bindings) :
            (/\ ResolvedPair(bindings[i]) # <<>>
             /\ FirstOccurrence(ResolvedPair(bindings[i])) = i) =>
                /\ IsAggregationBinding(bindings[i]) =>
                       /\ ~RecordedIn(info.measures, ResolvedPair(bindings[i]))
                       /\ NotExtracted(i) \/ RecordedIn(info.columns, ResolvedPair(bindings[i]))
                /\ IsMeasureBinding(bindings[i]) =>
                       /\ ~RecordedIn(info.columns, ResolvedPair(bindings[i]))
                       /\ NotExtracted(i) \/ RecordedIn(info.measures, ResolvedPair(bindings[i]))

(***************************************************************************)
(* Query synthesizer                                                       *)
(*                                                                         *)
(* A visual is [visual_type, measures, columns], the two lists holding     *)
(* field references [name, entity]; a reference given as a bare string is  *)
(* the reference with the empty entity.  A model measure is [table, name,  *)
(* dax].  Query text is a sequence of pieces: the literal parts of the     *)
(* f-strings are one piece each, names contribute their characters.        *)
(***************************************************************************)
\* Python's None
NoneValue == <<"None">>

\* The placeholder text of the measure_dax field
Sentinel == <<"(expression not found in model)">>

\* bool(x) of a lookup result
Truthy(x) == x # NoneValue /\ x # <<>>

\* The 3 of v_measures[:3]
MeasureCap == 3

\* v_columns[:2]
ColumnCap == 2

Presentational == {"slicer", "actionButton", "image", "textbox", "shape", "unknown"}

SingleValueTypes == {"card", "kpiVisual", "singleValue", "gauge", "multiRowCard"}

ListingTypes == {"table", "matrix", "tableEx"}

\* The " - " separator of the label f-strings (an em dash, U+2014, in
\* the source)
LabelDash == " -- "

\* lst[:n]
Take(lst, n) == SubSeq(lst, 1, Min2(n, Len(lst)))

\* measure_dax_lookup.get((table, name)): the dict is filled in list order,
\* the last measure with the key wins
LookupByPair(mdl, table, name) ==
    LET at == {i \in 1..Len(mdl) : mdl[i].table = table /\ mdl[i].name = name}
    IN IF at = {} THEN NoneValue
       ELSE mdl[CHOOSE i \in at : \A j \in at : i >= j].dax

\* measure_dax_lookup.get(name)
LookupByName(mdl, name) ==
    LET at == {i \in 1..Len(mdl) : mdl[i].name = name}
    IN IF at = {} THEN NoneValue
       ELSE mdl[CHOOSE i \in at : \A j \in at : i >= j].dax

\* dax_expr = lookup.get((m_entity, m_name)) or lookup.get(m_name) or ''
DaxExpr(mdl, m_entity, m_name) ==
    IF Truthy(LookupByPair(mdl, m_entity, m_name)) THEN LookupByPair(mdl, m_entity, m_name)
    ELSE IF Truthy(LookupByName(mdl, m_name)) THEN LookupByName(mdl, m_name)
    ELSE <<>>

\* quote(name) of _build_dax_for_visual
quote(name) ==
    IF " " \in Range(name) THEN <<"'">> \o name \o <<"'">> ELSE name

\* f'EVALUATE\nROW("{measure_name}", {safe_measure})'
RowQuery(measure_name) ==
    <<"EVALUATE\nROW(\"">> \o measure_name \o <<"\", ", "[">> \o measure_name \o <<"]", ")">>

\* the TOPN(20, SUMMARIZECOLUMNS(...)) f-string of _build_dax_for_visual
TopNQuery(group_col_dax, measure_name) ==
    <<"EVALUATE\nTOPN(\n    ", "20", ",\n    SUMMARIZECOLUMNS(\n        ">>
        \o group_col_dax
        \o <<",\n        \"">> \o measure_name \o <<"\", ", "[">> \o measure_name \o <<"]">>
        \o <<"\n    ),\n    ", "[">> \o measure_name \o <<"]", ", DESC\n)">>

\* Variant: the loop has no break, the last column with an entity is taken
GroupColDax_Last(bound_columns) ==
    LET withEntity == {i \in 1..Len(bound_columns) : bound_columns[i].entity # <<>>}
    IN IF withEntity = {} THEN <<>>
       ELSE LET col_ref == bound_columns[CHOOSE i \in withEntity : \A j \in withEntity : i >= j]
            IN quote(col_ref.entity) \o <<"[">> \o col_ref.name \o <<"]">>

\* group_col_dax: the first bound column whose entity is not empty, or
\* None (<<>>) when there is none
GroupColDax(bound_columns) ==
    LET withEntity == {i \in 1..Len(bound_columns) : bound_columns[i].entity # <<>>}
    IN IF withEntity = {} THEN <<>>
       ELSE LET col_ref == bound_columns[CHOOSE i \in withEntity : \A j \in withEntity : i <= j]
            IN quote(col_ref.entity) \o <<"[">> \o col_ref.name \o <<"]">>

\* Variant: the single-value branch is missing, a card with a bound
\* dimension is grouped like a chart
_build_dax_for_visual_Grouped(vtype, measure_name, measure_entity, bound_columns) ==
    IF GroupColDax(bound_columns) # <<>>
    THEN TopNQuery(GroupColDax(bound_columns), measure_name)
    ELSE RowQuery(measure_name)

\* _build_dax_for_visual(vtype, measure_name, measure_entity, bound_columns)
_build_dax_for_visual(vtype, measure_name, measure_entity, bound_columns) ==
    IF vtype \in SingleValueTypes THEN RowQuery(measure_name)
    ELSE IF GroupColDax(bound_columns) # <<>>
         THEN TopNQuery(GroupColDax(bound_columns), measure_name)
         ELSE RowQuery(measure_name)

\* Variant: 'measure_dax': dax_expr
MeasureDaxField_Raw(dax_expr) == dax_expr

\* 'measure_dax': dax_expr or '(expression not found in model)'
MeasureDaxField(dax_expr) == IF Truthy(dax_expr) THEN dax_expr ELSE Sentinel

\* Variant: `if dax_expr:` guards the append, a measure without expression
\* gives no query
MeasureStep_NeedsExpr(st, mdl, vtype, m_ref, v_columns) ==
    LET query_key == <<vtype, ":">> \o m_ref.entity \o <<":">> \o m_ref.name
        dax_expr  == DaxExpr(mdl, m_ref.entity, m_ref.name)
        dax_query == _build_dax_for_visual(vtype, m_ref.name, m_ref.entity, v_columns)
        q == [label          |-> <<vtype, LabelDash>> \o m_ref.name,
              visual_type    |-> vtype,
              measure_name   |-> m_ref.name,
              measure_entity |-> m_ref.entity,
              dax            |-> dax_query,
              measure_dax    |-> MeasureDaxField(dax_expr)]
    IN IF query_key \in st.seen THEN st
       ELSE IF dax_expr # <<>>
            THEN [queries |-> Append(st.queries, q),
                  seen    |-> st.seen \cup {query_key},
                  added   |-> Append(st.added, q)]
            ELSE [st EXCEPT !.seen = @ \cup {query_key}]

\* One iteration of `for m_ref in v_measures[:3]`; st is [queries, seen, added]
MeasureStep(st, mdl, vtype, m_ref, v_columns) ==
    LET query_key == <<vtype, ":">> \o m_ref.entity \o <<":">> \o m_ref.name
        dax_expr  == DaxExpr(mdl, m_ref.entity, m_ref.name)
        dax_query == _build_dax_for_visual(vtype, m_ref.name, m_ref.entity, v_columns)
        q == [label          |-> <<vtype, LabelDash>> \o m_ref.name,
              visual_type    |-> vtype,
              measure_name   |-> m_ref.name,
              measure_entity |-> m_ref.entity,
              dax            |-> dax_query,
              measure_dax    |-> MeasureDaxField(dax_expr)]
    IN IF query_key \in st.seen THEN st
       ELSE IF dax_query # <<>>
            THEN [queries |-> Append(st.queries, q),
                  seen    |-> st.seen \cup {query_key},
                  added   |-> Append(st.added, q)]
            ELSE [st EXCEPT !.seen = @ \cup {query_key}]

\* One iteration of `for col_ref in v_columns[:2]` of a column-only visual
ColumnStep(st, vtype, col_ref) ==
    LET query_key == <<vtype, ":", "c", "o", "l", ":">> \o col_ref.entity \o <<":">> \o col_ref.name
        q == [label          |-> <<"table", LabelDash>> \o col_ref.name,
              visual_type    |-> vtype,
              measure_name   |-> NoneValue,
              measure_entity |-> col_ref.entity,
              dax            |-> <<"EVALUATE\n", "TOPN(20, SUMMARIZECOLUMNS('">>
                                     \o col_ref.entity \o <<"'[">> \o col_ref.name \o <<"]))">>,
              measure_dax    |-> <<>>]
    IN IF query_key \in st.seen \/ col_ref.entity = <<>> THEN st
       ELSE [queries |-> Append(st.queries, q),
             seen    |-> st.seen \cup {query_key},
             added   |-> Append(st.added, q)]

\* Variant: the slice is missing, every bound measure is queried
CappedMeasures_All(v_measures) == v_measures

\* v_measures[:3]
CappedMeasures(v_measures) == Take(v_measures, MeasureCap)

\* Body of `for visual in page.get('visuals', [])`; pst is the page's
\* [queries, seen, contrib], contrib listing what each visual added
VisualStep(pst, mdl, visual) ==
    IF visual.visual_type \in Presentational
    THEN [pst EXCEPT !.contrib = Append(@, <<>>)]
    ELSE LET capped == CappedMeasures(visual.measures)
             M[i \in 0..Len(capped)] ==
                 IF i = 0 THEN [queries |-> pst.queries, seen |-> pst.seen, added |-> <<>>]
                 ELSE MeasureStep(M[i - 1], mdl, visual.visual_type, capped[i], visual.columns)
             afterMeasures == M[Len(capped)]
             cols == Take(visual.columns, ColumnCap)
             C[i \in 0..Len(cols)] ==
                 IF i = 0 THEN afterMeasures
                 ELSE ColumnStep(C[i - 1], visual.visual_type, cols[i])
             final == IF /\ visual.measures = <<>>
                         /\ visual.columns # <<>>
                         /\ visual.visual_type \in ListingTypes
                      THEN C[Len(cols)] ELSE afterMeasures
         IN [queries |-> final.queries,
             seen    |-> final.seen,
             contrib |-> Append(pst.contrib, final.added)]

\* Body of `for slide_num, page in enumerate(pages, start=1)`
PageQueries(mdl, page) ==
    LET V[i \in 0..Len(page.visuals)] ==
            IF i = 0 THEN [queries |-> <<>>, seen |-> {}, contrib |-> <<>>]
            ELSE VisualStep(V[i - 1], mdl, page.visuals[i])
    IN V[Len(page.visuals)]

\* build_dax_queries(pages, model)
build_dax_queries(pgs, mdl) ==
    [i \in 1..Len(pgs) |->
        [slide_number |-> i,
         page_name    |-> pgs[i].display_name,
         queries      |-> PageQueries(mdl, pgs[i]).queries]]

\* What each visual of each page appended to its page's group
Contributions(pgs, mdl) ==
    [i \in 1..Len(pgs) |-> PageQueries(mdl, pgs[i]).contrib]

(***************************************************************************)
(* Inputs of the query synthesizer                                         *)
(***************************************************************************)
\* Most visuals on one page
MaxVisuals == 2

\* Most measures bound to one visual
MaxMeasures == 4

Ref(entity, name) == [name |-> name, entity |-> entity]

AllMeasureRefs ==
    << Ref(<<"T">>, <<"m">>), Ref(<<"T">>, <<"n">>), Ref(<<"U">>, <<"m">>),
       Ref(<<"U">>, <<"n">>), Ref(<<"T">>, <<"u">>), Ref(<<"U">>, <<"u">>) >>

MeasureLists ==
    { <<>>,
      <<Ref(<<"T">>, <<"m">>)>>,
      <<Ref(<<"U">>, <<"m">>), Ref(<<"T">>, <<"m">>)>>,
      <<Ref(<<>>, <<"m">>)>>,
      <<Ref(<<"T", ":", "x">>, <<"m">>), Ref(<<"T">>, <<"x", ":", "m">>)>>,
      Take(AllMeasureRefs, MaxMeasures) }

ColumnLists ==
    { <<>>,
      <<Ref(<<"T">>, <<"c">>)>>,
      <<Ref(<<>>, <<"c">>)>>,
      <<Ref(<<>>, <<"c">>), Ref(<<"U", " ", "V">>, <<"d">>)>>,
      <<Ref(<<"T", ":", "x">>, <<"c">>), Ref(<<"T">>, <<"x", ":", "c">>)>>,
      <<Ref(<<"T">>, <<"c">>), Ref(<<"T">>, <<"d">>), Ref(<<"T">>, <<"b">>)>> }

VisualTypes == {"card", "clusteredColumnChart", "table", "slicer"}

Visual(vtype, ms, cs) == [visual_type |-> vtype, measures |-> ms, columns |-> cs]

Visuals == {Visual(t, ms, cs) : t \in VisualTypes, ms \in MeasureLists, cs \in ColumnLists}

\* The visuals that follow the first one of a page
FollowingVisuals ==
    { Visual("card", <<Ref(<<"T">>, <<"m">>)>>, <<>>),
      Visual("clusteredColumnChart", <<Ref(<<"T">>, <<"m">>)>>, <<Ref(<<"T">>, <<"c">>)>>),
      Visual("clusteredColumnChart", <<Ref(<<"U">>, <<"m">>)>>, <<>>),
      Visual("table", <<>>, <<Ref(<<"T">>, <<"c">>)>>),
      Visual("slicer", <<Ref(<<"T">>, <<"m">>)>>, <<>>),
      Visual("gauge", <<Ref(<<"T">>, <<"m">>)>>, <<Ref(<<"T">>, <<"c">>)>>),
      Visual("card", <<Ref(<<"T">>, <<"x", ":", "m">>)>>, <<>>) }

VisualLists ==
    {<<>>} \cup { <<v>> \o rest : v \in Visuals,
                                  rest \in SeqsUpTo(FollowingVisuals, MaxVisuals - 1) }

SecondPages ==
    { [display_name |-> "Ops", visuals |-> vs] :
        vs \in { <<>>,
                 <<Visual("clusteredColumnChart", <<Ref(<<"T">>, <<"m">>)>>, <<>>)>>,
                 <<Visual("table", <<>>, <<Ref(<<"T">>, <<"c">>)>>)>> } }

QueryPageLists ==
    LET first == {[display_name |-> "Sales", visuals |-> vs] : vs \in VisualLists}
    IN {<<p>> : p \in first} \cup {<<p, q>> : p \in first, q \in SecondPages}

ModelMeasure(table, name, dax) == [table |-> table, name |-> name, dax |-> dax]

Models ==
    { <<>>,
      <<ModelMeasure(<<"T">>, <<"m">>, <<"x">>)>>,
      <<ModelMeasure(<<"T">>, <<"m">>, <<>>)>>,
      <<ModelMeasure(<<"U">>, <<"m">>, <<"z">>)>>,
      <<ModelMeasure(<<"T">>, <<"m">>, <<"x">>), ModelMeasure(<<"U">>, <<"m">>, <<"z">>)>>,
      <<ModelMeasure(<<"T">>, <<"m">>, <<>>), ModelMeasure(<<"U">>, <<"m">>, <<"z">>)>> }

InitQuery ==
    /\ pc = "extracted"
    /\ qpages \in QueryPageLists
    /\ model \in Models
    /\ result = <<>>
    /\ contrib = <<>>
    /\ OrderIdle
    /\ RefsIdle
    /\ LayoutIdle
    /\ TmdlIdle
    /\ DirIdle

\* build_dax_queries(visible_pages, model)
BuildDaxQueries ==
    /\ pc = "extracted"
    /\ result' = build_dax_queries(qpages, model)
    /\ contrib' = Contributions(qpages, model)
    /\ pc' = "synthesized"
    /\ UNCHANGED <<qpages, model, orderVars, refVars, layoutVars, tmdlVars, dirVars>>

NextQuery == BuildDaxQueries

SpecQuery == InitQuery /\ [][NextQuery]_vars

(***************************************************************************)
(* Claims about the query synthesizer                                      *)
(***************************************************************************)
\* No definition under the (table, name) pair nor under the name alone
Undefined(ref) ==
    /\ LookupByPair(model, ref.entity, ref.name) = NoneValue
    /\ LookupByName(model, ref.name) = NoneValue

QueryBound(p, v) == qpages[p].visuals[v].visual_type \notin Presentational

\* The page's group has a record for the reference, with the placeholder
HasSentinelRecord(p, vtype, ref) ==
    \E k \in 1..Len(result[p].queries) :
        LET q == result[p].queries[k]
        IN /\ q.visual_type = vtype
           /\ q.measure_name = ref.name
           /\ q.measure_entity = ref.entity
           /\ q.measure_dax = Sentinel

\* C6 as stated: every measure bound by a non-presentational visual that has
\* no definition in the model has a Query record in its page's group whose
\* originating expression is the placeholder text.
C6_UndefinedMeasureKept ==
    pc = "synthesized" =>
        \A p \in 1..Len(qpages) : \A v \in 1..Len(qpages[p].visuals) :
            QueryBound(p, v) =>
                \A i \in 1..Len(qpages[p].visuals[v].measures) :
                    Undefined(qpages[p].visuals[v].measures[i]) =>
                        HasSentinelRecord(p, qpages[p].visuals[v].visual_type,
                                          qpages[p].visuals[v].measures[i])

\* C6, read with the cap of three that the synthesizer documents: the same
\* for every measure among the first three measure bindings of its visual.
C6_UndefinedMeasureKeptWithinCap ==
    pc = "synthesized" =>
        \A p \in 1..Len(qpages) : \A v \in 1..Len(qpages[p].visuals) :
            QueryBound(p, v) =>
                \A i \in 1..Len(qpages[p].visuals[v].measures) :
                    (i <= 3 /\ Undefined(qpages[p].visuals[v].measures[i])) =>
                        HasSentinelRecord(p, qpages[p].visuals[v].visual_type,
                                          qpages[p].visuals[v].measures[i])

C6_Witness ==
    /\ pc = "synthesized"
    /\ model # <<>>
    /\ \E v \in 1..Len(qpages[1].visuals) :
           /\ QueryBound(1, v)
           /\ Len(qpages[1].visuals[v].measures) >= 2
           /\ Undefined(qpages[1].visuals[v].measures[2])
           /\ ~Undefined(qpages[1].visuals[v].measures[1])
           /\ Len(contrib[1][v]) >= 2
           /\ contrib[1][v][1].measure_dax = <<"x">>
           /\ contrib[1][v][2].measure_name = qpages[1].visuals[v].measures[2].name
           /\ contrib[1][v][2].measure_dax = Sentinel

AllQueries ==
    UNION { {result[p].queries[k] : k \in 1..Len(result[p].queries)} : p \in 1..Len(result) }

\* C7 as stated: the originating expression of every Query record of every
\* group is a non-empty, non-null text.
C7_ExpressionNeverEmpty ==
    pc = "synthesized" =>
        \A q \in AllQueries : q.measure_dax # <<>> /\ q.measure_dax # NoneValue

\* C7 amended: the originating expression of every measure-based Query
\* record is a non-empty, non-null text.
C7_MeasureExpressionNeverEmpty ==
    pc = "synthesized" =>
        \A q \in AllQueries :
            q.measure_name # NoneValue =>
                q.measure_dax # <<>> /\ q.measure_dax # NoneValue

C7_Witness ==
    /\ pc = "synthesized"
    /\ \E q \in AllQueries :
           /\ q.measure_name # NoneValue
           /\ LookupByPair(model, q.measure_entity, q.measure_name) = <<>>
           /\ q.measure_dax = Sentinel
    /\ \E q \in AllQueries : q.measure_name = NoneValue

MeasureBased(qs) == FilterSeq(qs, LAMBDA q : q.measure_name # NoneValue)

\* C9: no visual adds more than 3 measure-based queries to its page's group.
C9_QueryCap ==
    pc = "synthesized" =>
        \A p \in 1..Len(contrib) : \A v \in 1..Len(contrib[p]) :
            Len(MeasureBased(contrib[p][v])) <= 3

C9_Witness ==
    /\ pc = "synthesized"
    /\ \E v \in 1..Len(contrib[1]) :
           /\ Len(qpages[1].visuals[v].measures) > 3
           /\ Len(MeasureBased(contrib[1][v])) = 3

\* The column reference Entity[Column] of a bound dimension
ColumnDax(col_ref) == quote(col_ref.entity) \o <<"[">> \o col_ref.name \o <<"]">>

Grouped(p, v) ==
    /\ qpages[p].visuals[v].visual_type \notin Presentational
    /\ qpages[p].visuals[v].visual_type \notin SingleValueTypes

\* C10 as stated: for a visual that is neither presentational nor of a
\* single-value family, each measure query is the top-20 projection grouped
\* by the first bound dimension, ordered by the measure descending, whenever
\* the visual has a bound dimension; the single-row projection otherwise.
C10_GroupedByFirstDimension ==
    pc = "synthesized" =>
        \A p \in 1..Len(contrib) : \A v \in 1..Len(contrib[p]) :
            Grouped(p, v) =>
                \A k \in 1..Len(MeasureBased(contrib[p][v])) :
                    LET q == MeasureBased(contrib[p][v])[k]
                        cols == qpages[p].visuals[v].columns
                    IN IF cols # <<>>
                       THEN q.dax = TopNQuery(ColumnDax(cols[1]), q.measure_name)
                       ELSE q.dax = RowQuery(q.measure_name)

WithEntity(cols) == FilterSeq(cols, LAMBDA c : c.entity # <<>>)

\* C10 amended: the grouping dimension is the first bound dimension that
\* has an owning entity; the single-row projection is used when no bound
\* dimension has one.
C10_GroupedByFirstDimensionWithEntity ==
    pc = "synthesized" =>
        \A p \in 1..Len(contrib) : \A v \in 1..Len(contrib[p]) :
            Grouped(p, v) =>
                \A k \in 1..Len(MeasureBased(contrib[p][v])) :
                    LET q == MeasureBased(contrib[p][v])[k]
                        cols == WithEntity(qpages[p].visuals[v].columns)
                    IN IF cols # <<>>
                       THEN q.dax = TopNQuery(ColumnDax(cols[1]), q.measure_name)
                       ELSE q.dax = RowQuery(q.measure_name)

C10_Witness ==
    /\ pc = "synthesized"
    /\ \E v \in 1..Len(contrib[1]) :
           /\ Grouped(1, v)
           /\ Len(qpages[1].visuals[v].columns) = 2
           /\ qpages[1].visuals[v].columns[1].entity = <<>>
           /\ Len(contrib[1][v]) = 3
           /\ contrib[1][v][1].dax =
                  TopNQuery(<<"'", "U", " ", "V", "'", "[", "d", "]">>, <<"m">>)

\* C11: every measure query a visual of a single-value family adds is the
\* single-row projection of one of its first bound measures, with no
\* grouping column, whatever dimensions the visual binds.
C11_SingleValueRow ==
    pc = "synthesized" =>
        \A p \in 1..Len(contrib) : \A v \in 1..Len(contrib[p]) :
            qpages[p].visuals[v].visual_type \in SingleValueTypes =>
                \A k \in 1..Len(contrib[p][v]) :
                    /\ contrib[p][v][k].measure_name # NoneValue
                    /\ \E i \in 1..Len(qpages[p].visuals[v].measures) :
                           /\ qpages[p].visuals[v].measures[i].name = contrib[p][v][k].measure_name
                           /\ qpages[p].visuals[v].measures[i].entity
                                  = contrib[p][v][k].measure_entity
                    /\ contrib[p][v][k].dax = RowQuery(contrib[p][v][k].measure_name)

C11_Witness ==
    /\ pc = "synthesized"
    /\ \E v \in 1..Len(contrib[1]) :
           /\ qpages[1].visuals[v].visual_type \in SingleValueTypes
           /\ GroupColDax(qpages[1].visuals[v].columns) # <<>>
           /\ Len(contrib[1][v]) >= 2
           /\ contrib[1][v][1].dax = RowQuery(<<"m">>)

(***************************************************************************)
(* One visual in the two layouts of an archive                             *)
(*                                                                         *)
(* The split layout stores a visual as visual.json (visualType, the title  *)
(* literal, queryState by role) and reads it with _parse_visual_json; the  *)
(* monolithic layout stores it as the config of a visual container         *)
(* (visualType, the title literal, projections by role with a queryRef     *)
(* text) and reads it in _discover_pages_from_layout.                      *)
(***************************************************************************)
\* visual_node.get('visualType', 'unknown') or 'unknown'
VisualTypeOf(raw) == IF raw = NoneValue \/ raw = <<>> THEN <<"unknown">> ELSE raw

\* if title_val: title = title_val.strip("'\"")
TitleOf(title_val) ==
    IF title_val = NoneValue \/ title_val = <<>> THEN <<>>
    ELSE Strip(title_val, LAMBDA c : c \in {"'", "\""})

\* The record both readers build: visual_type, title, measures, columns
VisualRecord(vtype, title, refs) ==
    [visual_type |-> vtype, title |-> title,
     measures |-> refs.measures, columns |-> refs.columns]

\* _parse_visual_json(visual_id, vis_cfg), called by _discover_pages_split
_parse_visual_json(visualType, title_val, projs) ==
    VisualRecord(VisualTypeOf(visualType), TitleOf(title_val),
                 _extract_field_refs_v2(projs))

\* Body of `for vc in section.get('visualContainers', [])` of
\* _discover_pages_from_layout
LayoutVisual(visualType, title_val, items) ==
    VisualRecord(VisualTypeOf(visualType), TitleOf(title_val), LegacyFieldRefs(items))

(***************************************************************************)
(* Inputs: a visual given by its type, title and field bindings, rendered  *)
(* in both layouts                                                         *)
(***************************************************************************)
\* Most field bindings of the visual
MaxFields == 2

Field(role, kind, entity, prop) ==
    [role |-> role, kind |-> kind, entity |-> entity, prop |-> prop]

Fields ==
    { Field("Y", "Measure", <<"T">>, <<"m">>),
      Field("Y", "Measure", <<"T">>, <<"n">>),
      Field("Y", "Aggregation", <<"T">>, <<"c">>),
      Field("Values", "Column", <<"T">>, <<"c">>),
      Field("Category", "Column", <<"T">>, <<"c">>),
      Field("Category", "Column", <<"T">>, <<"d">>) }

\* The projection of the field under queryState[role] of visual.json
ModernOf(f) == Proj(f.role, f.kind, f.entity, f.prop, <<>>)

\* The projection of the field under projections[role] of the container
\* config: Entity.Property, Sum(Entity.Property) for an aggregation
LegacyOf(f) ==
    QRef(f.role,
         IF f.kind = "Aggregation"
         THEN <<"S", "u", "m", "(">> \o f.entity \o <<".">> \o f.prop \o <<")">>
         ELSE f.entity \o <<".">> \o f.prop)

RawVisualTypes == {NoneValue, <<>>, <<"card">>, <<"tableEx">>}

RawTitles == {NoneValue, <<>>, <<"'", "R", "'">>}

InitLayouts ==
    /\ pc = "stored"
    /\ visualSrc \in [visualType : RawVisualTypes, title : RawTitles,
                      fields : {fs \in SeqsUpTo(Fields, MaxFields) : GroupedByRole(fs)}]
    /\ splitRec = <<>>
    /\ layoutRec = <<>>
    /\ OrderIdle
    /\ RefsIdle
    /\ QueryIdle
    /\ TmdlIdle
    /\ DirIdle

\* _discover_pages_split reads the visual from its visual.json
DiscoverPagesSplit ==
    /\ pc = "stored"
    /\ splitRec = <<>>
    /\ splitRec' = <<_parse_visual_json(visualSrc.visualType, visualSrc.title,
                        [i \in 1..Len(visualSrc.fields) |-> ModernOf(visualSrc.fields[i])])>>
    /\ UNCHANGED <<pc, visualSrc, layoutRec, orderVars, refVars, queryVars, tmdlVars, dirVars>>

\* _discover_pages_from_layout reads the visual from its container config
DiscoverPagesLayout ==
    /\ pc = "stored"
    /\ layoutRec = <<>>
    /\ layoutRec' = <<LayoutVisual(visualSrc.visualType, visualSrc.title,
                        [i \in 1..Len(visualSrc.fields) |-> LegacyOf(visualSrc.fields[i])])>>
    /\ UNCHANGED <<pc, visualSrc, splitRec, orderVars, refVars, queryVars, tmdlVars, dirVars>>

NextLayouts == DiscoverPagesSplit \/ DiscoverPagesLayout

SpecLayouts == InitLayouts /\ [][NextLayouts]_vars

\* C12: a visual read from the split layout and the same visual read from
\* the monolithic layout give the same record: same visual type, title,
\* measure list and dimension list.
C12_LayoutsAgree ==
    (splitRec # <<>> /\ layoutRec # <<>>) => splitRec = layoutRec

\* The measure-based queries of page p for the measure ref typed vtype
QueriesFor(p, vtype, ref) ==
    { k \in 1..Len(result[p].queries) :
        /\ result[p].queries[k].measure_name # NoneValue
        /\ result[p].queries[k].visual_type = vtype
        /\ result[p].queries[k].measure_entity = ref.entity
        /\ result[p].queries[k].measure_name = ref.name }

\* The measures a visual is queried for: the first three of a visual that
\* is not presentational
QueriedMeasures(visual) ==
    IF visual.visual_type \in Presentational THEN {}
    ELSE Range(Take(visual.measures, MeasureCap))

\* Query k of page p stems from a visual of that page
FromVisualOfPage(p, k) ==
    \E v \in 1..Len(qpages[p].visuals) :
        /\ qpages[p].visuals[v].visual_type = result[p].queries[k].visual_type
        /\ IF result[p].queries[k].measure_name = NoneValue
           THEN \E c \in Range(qpages[p].visuals[v].columns) :
                    /\ c.entity = result[p].queries[k].measure_entity
                    /\ result[p].queries[k].measure_dax = <<>>
           ELSE \E r \in QueriedMeasures(qpages[p].visuals[v]) :
                    /\ r.entity = result[p].queries[k].measure_entity
                    /\ r.name = result[p].queries[k].measure_name

\* C14: a page's group has at most one measure query per (visual type,
\* entity, measure name); a measure queried by two visuals of a page gives
\* one query per visual type (two for differently typed visuals, one for
\* same-typed ones), pages being independent of each other; every query of
\* a group stems from a visual of its page.
C14_PerPageDedup ==
    pc = "synthesized" =>
        \A p \in 1..Len(qpages) :
            /\ \A v, w \in 1..Len(qpages[p].visuals) :
                   v < w =>
                       \A r \in QueriedMeasures(qpages[p].visuals[v])
                                   \cap QueriedMeasures(qpages[p].visuals[w]) :
                           /\ Cardinality(QueriesFor(p, qpages[p].visuals[v].visual_type, r)) = 1
                           /\ Cardinality(QueriesFor(p, qpages[p].visuals[w].visual_type, r)) = 1
            /\ \A v \in 1..Len(qpages[p].visuals) :
                   \A r \in QueriedMeasures(qpages[p].visuals[v]) :
                       Cardinality(QueriesFor(p, qpages[p].visuals[v].visual_type, r)) <= 1
            /\ \A k \in 1..Len(result[p].queries) : FromVisualOfPage(p, k)

\* The model measures with the (table, name) pair of query q
OwnMeasures(q) ==
    { i \in 1..Len(model) :
        model[i].table = q.measure_entity /\ model[i].name = q.measure_name }

\* C15: whenever the model has a measure with the (table, name) pair of a
\* measure query, the originating expression recorded for the query is
\* that measure's calculation text (the placeholder standing for an empty
\* text); a same-named measure of another table is used only when there is
\* no measure with the pair.
C15_LookupByPairFirst ==
    pc = "synthesized" =>
        \A q \in AllQueries :
            (q.measure_name # NoneValue /\ OwnMeasures(q) # {}) =>
                \E i \in OwnMeasures(q) :
                    \/ q.measure_dax = model[i].dax
                    \/ model[i].dax = <<>> /\ q.measure_dax = Sentinel

\* f"EVALUATE\nTOPN(20, SUMMARIZECOLUMNS('{col_entity}'[{col_name}]))"
ListingQuery(col_ref) ==
    <<"EVALUATE\n", "TOPN(20, SUMMARIZECOLUMNS('">>
        \o col_ref.entity \o <<"'[">> \o col_ref.name \o <<"]))">>

DimensionOnly(visual) ==
    /\ visual.visual_type \in ListingTypes
    /\ visual.measures = <<>>
    /\ visual.columns # <<>>

\* The records without a measure name that visual v of page p added
Listings(p, v) == FilterSeq(contrib[p][v], LAMBDA q : q.measure_name = NoneValue)

\* The page's group lists the dimension for the visual type
ListedInGroup(p, vtype, col_ref) ==
    \E k \in 1..Len(result[p].queries) :
        /\ result[p].queries[k].measure_name = NoneValue
        /\ result[p].queries[k].visual_type = vtype
        /\ result[p].queries[k].measure_entity = col_ref.entity
        /\ result[p].queries[k].dax = ListingQuery(col_ref)

\* C16: a table or matrix visual with bound dimensions and no bound measure
\* gives one top-N listing query per bound dimension, at most two per
\* visual; no other visual adds a Query record without a measure name.
\* Read leniently: a dimension needs an owning entity and may have been
\* listed by an earlier visual of the same type on the page.
C16_DimensionOnlyListing ==
    pc = "synthesized" =>
        \A p \in 1..Len(contrib) : \A v \in 1..Len(contrib[p]) :
            IF DimensionOnly(qpages[p].visuals[v])
            THEN /\ Len(Listings(p, v)) <= ColumnCap
                 /\ Listings(p, v) = contrib[p][v]
                 /\ \A k \in 1..Len(Listings(p, v)) :
                        \E c \in Range(Take(qpages[p].visuals[v].columns, ColumnCap)) :
                            /\ Listings(p, v)[k].dax = ListingQuery(c)
                            /\ Listings(p, v)[k].measure_entity = c.entity
                 /\ \A c \in Range(Take(qpages[p].visuals[v].columns, ColumnCap)) :
                        c.entity # <<>> =>
                            ListedInGroup(p, qpages[p].visuals[v].visual_type, c)
            ELSE Listings(p, v) = <<>>

(***************************************************************************)
(* Model definition files: _parse_tmdl_file (pbip_extractor.py)            *)
(*                                                                         *)
(* A line is a sequence of lexemes.  Blanks, tabs, quotes, ':' and '=' are *)
(* single characters; a keyword, a name or an expression fragment is one   *)
(* lexeme that stands for its characters.  The regular expressions of the  *)
(* parser are computed over these sequences.                               *)
(***************************************************************************)
\* None where the other value is a dict or a match object
NoneObject == [none |-> TRUE]

\* \s of the regular expressions and of str.strip() inside one line
IsBlank(c) == c \in {" ", "\t"}

\* str.strip() of the joined expression also removes line breaks
IsWhite(c) == c \in {" ", "\t", "\n"}

IsQuote(c) == c = "'"

\* len(line) - len(line.lstrip())
get_indent(line) == Len(line) - Len(StripLeft(line, IsBlank))

\* s.startswith(prefix)
StartsWith(s, prefix) ==
    Len(s) >= Len(prefix) /\ SubSeq(s, 1, Len(prefix)) = prefix

\* The tail '?(.+?)'?\s*$ of the table and column patterns, applied to the
\* text after the keyword and its blanks: an opening quote is consumed when
\* something follows it, the lazy group stops before one closing quote and
\* the trailing blanks.
DropOpeningQuote(rest) ==
    IF Len(rest) >= 2 /\ IsQuote(rest[1]) THEN Tail(rest) ELSE rest

DropClosingQuote(t) ==
    IF Len(t) >= 2 /\ IsQuote(t[Len(t)]) THEN SubSeq(t, 1, Len(t) - 1) ELSE t

NameGroup(rest) ==
    DropClosingQuote(StripRight(DropOpeningQuote(rest), IsBlank))

\* keyword\s+ at the head of `body`: the text after the blanks, or
\* NoneValue when the pattern does not match
AfterKeyword(body, keyword) ==
    IF Len(body) >= 3 /\ body[1] = keyword /\ IsBlank(body[2])
       /\ StripLeft(Tail(body), IsBlank) # <<>>
    THEN StripLeft(Tail(body), IsBlank)
    ELSE NoneValue

\* ^\s+keyword\s+ on the raw line: at least one leading blank is required
AfterIndentedKeyword(raw_line, keyword) ==
    IF get_indent(raw_line) >= 1
    THEN AfterKeyword(StripLeft(raw_line, IsBlank), keyword)
    ELSE NoneValue

\* re.match(r"^table\s+'?(.+?)'?\s*$", stripped): group(1) or NoneValue
TableMatch(stripped) ==
    IF AfterKeyword(stripped, "table") = NoneValue THEN NoneValue
    ELSE NameGroup(AfterKeyword(stripped, "table"))

\* re.match(r"^\s+column\s+'?(.+?)'?\s*$", raw_line): group(1) or NoneValue
ColMatch(raw_line) ==
    IF AfterIndentedKeyword(raw_line, "column") = NoneValue THEN NoneValue
    ELSE NameGroup(AfterIndentedKeyword(raw_line, "column"))

\* Position of the first '=' after the first lexeme of `rest`, 0 if none
FirstEquals(rest) ==
    IF \E i \in 2..Len(rest) : rest[i] = "="
    THEN CHOOSE i \in 2..Len(rest) :
            rest[i] = "=" /\ \A j \in 2..(i - 1) : rest[j] # "="
    ELSE 0

\* re.match(r"^\s+measure\s+'?(.+?)'?\s*=\s*(.*)", raw_line): the two
\* groups, or NoneObject.  The lazy name group ends before the closing quote
\* and the blanks in front of the first '='.
MeasureGroups(rest, eq) ==
    IF eq = 0 THEN NoneObject
    ELSE [name |-> NameGroup(SubSeq(rest, 1, eq - 1)),
          expr |-> SubSeq(rest, eq + 1, Len(rest))]

MeasureMatch(raw_line) ==
    IF AfterIndentedKeyword(raw_line, "measure") = NoneValue THEN NoneObject
    ELSE MeasureGroups(DropOpeningQuote(AfterIndentedKeyword(raw_line, "measure")),
                       FirstEquals(DropOpeningQuote(AfterIndentedKeyword(raw_line, "measure"))))

\* The property keywords that end a measure expression
PropKeywords ==
    {"formatString", "displayFolder", "annotation", "isHidden", "description",
     "kpiStatusExpression", "kpiTargetExpression", "lineageTag", "summarizeBy",
     "dataCategory"}

\* A parser whose keyword list lacks formatString: the expression runs on
\* through the formatString line
PropMatch_NoFormatString(raw_line) ==
    /\ get_indent(raw_line) >= 1
    /\ StripLeft(raw_line, IsBlank)[1] \in PropKeywords \ {"formatString"}
    /\ StartsWith(StripLeft(Tail(StripLeft(raw_line, IsBlank)), IsBlank), <<":">>)

\* re.match(r'^\s+(formatString|...|dataCategory)\s*:', raw_line)
PropMatch(raw_line) ==
    /\ get_indent(raw_line) >= 1
    /\ StripLeft(raw_line, IsBlank)[1] \in PropKeywords
    /\ StartsWith(StripLeft(Tail(StripLeft(raw_line, IsBlank)), IsBlank), <<":">>)

\* stripped.split(':', 1)[1].strip()
AfterColon(stripped) ==
    Strip(SubSeq(stripped,
                 1 + (CHOOSE i \in 1..Len(stripped) :
                        stripped[i] = ":" /\ \A j \in 1..(i - 1) : stripped[j] # ":"),
                 Len(stripped)), IsBlank)

\* The relationship properties the parser reads, with the key each one
\* fills and whether quotes are stripped from its value
RelProps ==
    [fromTable |-> [key |-> "from_table", unquote |-> TRUE],
     fromColumn |-> [key |-> "from_column", unquote |-> TRUE],
     toTable |-> [key |-> "to_table", unquote |-> TRUE],
     toColumn |-> [key |-> "to_column", unquote |-> TRUE],
     cardinality |-> [key |-> "cardinality", unquote |-> FALSE],
     crossFilteringBehavior |-> [key |-> "cross_filter", unquote |-> FALSE]]

\* stripped.startswith('fromTable:') and its siblings
IsRelProp(stripped) ==
    Len(stripped) >= 2 /\ stripped[1] \in DOMAIN RelProps /\ stripped[2] = ":"

RelPropValue(stripped) ==
    IF RelProps[stripped[1]].unquote
    THEN Strip(AfterColon(stripped), IsQuote)
    ELSE AfterColon(stripped)

\* A dict as a function on its keys
EmptyDict == [k \in {} |-> <<>>]

DictSet(d, key, value) ==
    [k \in DOMAIN d \cup {key} |-> IF k = key THEN value ELSE d[k]]

\* d.get(key)
DictGet(d, key) == IF key \in DOMAIN d THEN d[key] ELSE NoneValue

\* The locals of _parse_tmdl_file before the first line, with the result
\* dict (tables, relationships) it fills
ScanStart ==
    [tables |-> <<>>, relationships |-> <<>>,
     current_table |-> NoneObject, current_column |-> NoneObject,
     current_measure |-> NoneObject, in_measure_expr |-> FALSE,
     measure_expr_lines |-> <<>>, in_relationship |-> FALSE,
     rel_buf |-> EmptyDict]

\* '\n'.join(measure_expr_lines)
RECURSIVE JoinLines(_)
JoinLines(ls) ==
    IF ls = <<>> THEN <<>>
    ELSE IF Len(ls) = 1 THEN ls[1]
    ELSE ls[1] \o <<"\n">> \o JoinLines(Tail(ls))

\* The measure as flush_measure stores it
FinishedMeasure(measure, expr_lines) ==
    IF expr_lines # <<>>
    THEN [measure EXCEPT !.dax = Strip(JoinLines(expr_lines), IsWhite)]
    ELSE measure

flush_measure(st) ==
    IF st.current_measure # NoneObject /\ st.current_table # NoneObject
    THEN [st EXCEPT !.current_table.measures =
                        Append(@, FinishedMeasure(st.current_measure,
                                                  st.measure_expr_lines)),
                    !.current_measure = NoneObject,
                    !.in_measure_expr = FALSE,
                    !.measure_expr_lines = <<>>]
    ELSE [st EXCEPT !.current_measure = NoneObject,
                    !.in_measure_expr = FALSE,
                    !.measure_expr_lines = <<>>]

flush_column(st) ==
    IF st.current_column # NoneObject /\ st.current_table # NoneObject
    THEN [st EXCEPT !.current_table.columns = Append(@, st.current_column),
                    !.current_column = NoneObject]
    ELSE [st EXCEPT !.current_column = NoneObject]

\* A line that starts with 'relationship': the buffer of a block still
\* open is replaced by an empty one
OpenRelationship(st) ==
    flush_column(flush_measure([st EXCEPT !.in_relationship = TRUE,
                                          !.rel_buf = EmptyDict]))

\* if rel_buf.get('from_table') and rel_buf.get('to_table')
RelComplete(rel_buf) ==
    Truthy(DictGet(rel_buf, "from_table")) /\ Truthy(DictGet(rel_buf, "to_table"))

\* The branch `if in_relationship:`; every path through it ends in continue
RelationshipLine(st, stripped, indent) ==
    IF IsRelProp(stripped)
    THEN [st EXCEPT !.rel_buf = DictSet(@, RelProps[stripped[1]].key,
                                        RelPropValue(stripped))]
    ELSE IF indent = 0
    THEN [st EXCEPT !.relationships =
                        IF RelComplete(st.rel_buf) THEN Append(@, st.rel_buf) ELSE @,
                    !.in_relationship = FALSE,
                    !.rel_buf = EmptyDict]
    ELSE st

\* A table header: the open measure, column and table are stored
AppendTable(st) ==
    IF st.current_table # NoneObject
    THEN [st EXCEPT !.tables = Append(@, st.current_table)]
    ELSE st

OpenTable(st, name) ==
    [AppendTable(flush_column(flush_measure(st)))
        EXCEPT !.current_table = [name |-> name, columns |-> <<>>, measures |-> <<>>]]

OpenMeasure(st, groups) ==
    [flush_column(flush_measure(st))
        EXCEPT !.current_measure = [name |-> Strip(Strip(groups.name, IsBlank), IsQuote),
                                    dax |-> <<>>],
               !.in_measure_expr = TRUE,
               !.measure_expr_lines =
                    IF Strip(groups.expr, IsBlank) # <<>>
                    THEN <<Strip(groups.expr, IsBlank)>> ELSE <<>>]

OpenColumn(st, group) ==
    [flush_measure(flush_column(st))
        EXCEPT !.current_column = [name |-> Strip(Strip(group, IsBlank), IsQuote),
                                   dataType |-> <<"unknown">>]]

\* The tests on a line inside a table, in the order of the loop body
TableLine(st, raw_line, stripped) ==
    IF MeasureMatch(raw_line) # NoneObject
    THEN OpenMeasure(st, MeasureMatch(raw_line))
    ELSE IF st.in_measure_expr /\ st.current_measure # NoneObject
    THEN IF PropMatch(raw_line)
         THEN flush_measure(st)
         ELSE [st EXCEPT !.measure_expr_lines = Append(@, stripped)]
    ELSE IF ColMatch(raw_line) # NoneValue
    THEN OpenColumn(st, ColMatch(raw_line))
    ELSE IF st.current_column # NoneObject /\ StartsWith(stripped, <<"dataType", ":">>)
    THEN [st EXCEPT !.current_column.dataType = AfterColon(stripped)]
    ELSE st

\* One pass of the loop body for a line that is not blank
ScanStripped(st, raw_line, stripped, indent) ==
    IF StartsWith(stripped, <<"relationship">>) THEN OpenRelationship(st)
    ELSE IF st.in_relationship THEN RelationshipLine(st, stripped, indent)
    ELSE IF TableMatch(stripped) # NoneValue /\ indent = 0
    THEN OpenTable(st, TableMatch(stripped))
    ELSE IF st.current_table = NoneObject THEN st
    ELSE TableLine(st, raw_line, stripped)

\* One pass of `for raw_line in lines`; blank lines are skipped
ScanStep(st, raw_line) ==
    IF Strip(raw_line, IsBlank) = <<>> THEN st
    ELSE ScanStripped(st, raw_line, Strip(raw_line, IsBlank), get_indent(raw_line))

\* An end of input that stores the open table as it stands, without its
\* open measure and column
FlushAtEnd_TableOnly(st) ==
    [AppendTable(st)
        EXCEPT !.relationships =
                    IF st.in_relationship /\ Truthy(DictGet(st.rel_buf, "from_table"))
                    THEN Append(@, st.rel_buf) ELSE @]

\* The statements after the loop
FlushAtEnd(st) ==
    [AppendTable(flush_column(flush_measure(st)))
        EXCEPT !.relationships =
                    IF st.in_relationship /\ Truthy(DictGet(st.rel_buf, "from_table"))
                    THEN Append(@, st.rel_buf) ELSE @]

(***************************************************************************)
(* Definition files the parser is run on                                   *)
(***************************************************************************)
MaxLines == 4

\* An indentation unit: a tab or four blanks
IndentUnits == {<<"\t">>, <<" ", " ", " ", " ">>}

SumAmount == <<"SUM", "(", "Sales", "[", "Amount", "]", ")">>

FormatLine(unit) == unit \o unit \o <<"formatString", ":", " ", "#,##0.00">>

\* The Sales table of the parser's documentation: one column with its
\* dataType, one measure with a formatString; the expression is on the
\* header line (inline) or on the line after it
SalesFile(header, unit, inline) ==
    <<header,
      unit \o <<"column", " ", "OrderId">>,
      unit \o unit \o <<"dataType", ":", " ", "int64">>>>
    \o (IF inline
        THEN <<unit \o <<"measure", " ", "'", "Total Revenue", "'", " ", "=", " ">> \o SumAmount>>
        ELSE <<unit \o <<"measure", " ", "'", "Total Revenue", "'", " ", "=">>,
               unit \o unit \o unit \o SumAmount>>)
    \o <<FormatLine(unit)>>

WellFormedFiles ==
    {SalesFile(header, unit, inline) :
        header \in {<<"table", " ", "Sales">>, <<"table", " ", "'", "Sales", "'">>},
        unit \in IndentUnits, inline \in BOOLEAN}

\* Lines of a table body, in any order
TableBodyLines ==
    {<<"\t", "column", " ", "OrderId">>,
     <<"\t", "\t", "dataType", ":", " ", "int64">>,
     <<"\t", "measure", " ", "'", "Total Revenue", "'", " ", "=", " ">> \o SumAmount,
     <<"\t", "measure", " ", "Margin", " ", "=">>,
     <<"\t", "\t", "\t">> \o SumAmount,
     FormatLine(<<"\t">>),
     <<"table", " ", "Dates">>,
     <<>>}

\* Lines around relationship blocks, in any order
RelationshipLines ==
    {<<"relationship", " ", "r1">>,
     <<"\t", "fromTable", ":", " ", "Sales">>,
     <<"\t", "toTable", ":", " ", "'", "Dates", "'">>,
     <<"table", " ", "Sales">>,
     <<"\t", "column", " ", "OrderId">>,
     <<"\t", "measure", " ", "Margin", " ", "=">>,
     <<"model", " ", "Model">>}

TmdlFiles ==
    WellFormedFiles
    \cup {<<<<"table", " ", "Sales">>>> \o body : body \in SeqsUpTo(TableBodyLines, MaxLines - 1)}
    \cup SeqsUpTo(RelationshipLines, MaxLines)

InitTmdl ==
    /\ pc = "scanning"
    /\ lines \in TmdlFiles
    /\ line_no = 1
    /\ scan = ScanStart
    /\ OrderIdle
    /\ RefsIdle
    /\ QueryIdle
    /\ LayoutIdle
    /\ DirIdle

\* One iteration of the loop over the lines
ScanLine ==
    /\ pc = "scanning"
    /\ line_no <= Len(lines)
    /\ scan' = ScanStep(scan, lines[line_no])
    /\ line_no' = line_no + 1
    /\ UNCHANGED <<pc, lines, orderVars, refVars, queryVars, layoutVars, dirVars>>

\* The loop is over: the open items are flushed and the result returned
EndOfInput ==
    /\ pc = "scanning"
    /\ line_no > Len(lines)
    /\ scan' = FlushAtEnd(scan)
    /\ pc' = "parsed"
    /\ UNCHANGED <<lines, line_no, orderVars, refVars, queryVars, layoutVars, dirVars>>

NextTmdl == ScanLine \/ EndOfInput

SpecTmdl == InitTmdl /\ [][NextTmdl]_vars

\* C17: the documented Sales file parses to exactly one table "Sales" with
\* exactly one column OrderId of dataType int64 and exactly one measure
\* "Total Revenue" whose expression is SUM(Sales[Amount]) without the
\* formatString line, whether the expression is on the header line or on
\* the line after it.
SalesTable ==
    [name |-> <<"Sales">>,
     columns |-> <<[name |-> <<"OrderId">>, dataType |-> <<"int64">>]>>,
     measures |-> <<[name |-> <<"Total Revenue">>, dax |-> SumAmount]>>]

C17_WellFormedSales ==
    (pc = "parsed" /\ lines \in WellFormedFiles)
        => (scan.tables = <<SalesTable>> /\ scan.relationships = <<>>)

C17_Witness ==
    /\ pc = "parsed"
    /\ lines = SalesFile(<<"table", " ", "'", "Sales", "'">>, <<"\t">>, FALSE)
    /\ scan.tables = <<SalesTable>>

(***************************************************************************)
(* Page discovery over page and visual manifests: discover_report_pages    *)
(* (pbip_extractor.py) and _discover_pages_split (pbix_extractor.py)       *)
(*                                                                         *)
(* A manifest is "unreadable" when reading, decoding or json.loads raises, *)
(* "not_object" when its text is valid JSON that is not an object, and     *)
(* "ok" with the fields the readers look at otherwise.                     *)
(***************************************************************************)
\* d.get(key, default)
GetOr(d, key, default) == IF key \in DOMAIN d THEN d[key] ELSE default

\* The characters of a folder name
NameText(name) ==
    CASE name = "p1" -> <<"p", "1">>
      [] name = "p2" -> <<"p", "2">>
      [] name = "p3" -> <<"p", "3">>

\* Position of a folder or entry name in sorted() order
NameRank(name) ==
    CASE name \in {"p1", "v1"} -> 1
      [] name \in {"p2", "v2"} -> 2
      [] name \in {"p3", "v3"} -> 3

\* sorted(dir.iterdir())
SortedByName(entries) == StableSortBy(entries, LAMBDA e : NameRank(e.name))

\* page_cfg.get('displayName') or page_cfg.get('name') or the folder name
PageDisplayName(page_id, page_cfg) ==
    IF Truthy(DictGet(page_cfg, "displayName")) THEN page_cfg.displayName
    ELSE IF Truthy(DictGet(page_cfg, "name")) THEN page_cfg.name
    ELSE NameText(page_id)

\* The page dict both readers build from a page manifest
PageRecord(page_id, page_cfg, visuals) ==
    [name |-> page_id,
     display_name |-> PageDisplayName(page_id, page_cfg),
     ordinal |-> GetOr(page_cfg, "ordinal", DefaultOrdinal),
     is_hidden |-> GetOr(page_cfg, "visibility", 0) # 0,
     visuals |-> visuals]

\* The try block around one visual manifest: json.loads and
\* _parse_visual_json; any exception leaves the visual out
RECURSIVE ReadVisuals(_)
ReadVisuals(entries) ==
    IF entries = <<>> THEN <<>>
    ELSE IF entries[1].visual_json.kind = "ok"
    THEN <<[visual_id |-> entries[1].name]
             @@ _parse_visual_json(entries[1].visual_json.visualType,
                                   entries[1].visual_json.title,
                                   entries[1].visual_json.projs)>>
         \o ReadVisuals(Tail(entries))
    ELSE ReadVisuals(Tail(entries))

Aborted == [kind |-> "aborted"]

\* The loop over the page folders of discover_report_pages: an unreadable
\* page manifest is skipped with its folder; page_cfg.get on a manifest that
\* is not an object raises outside the try block
RECURSIVE DirectoryPages(_)
DirectoryPages(folders) ==
    IF folders = <<>> THEN [kind |-> "pages", pages |-> <<>>]
    ELSE IF folders[1].page_json.kind = "unreadable" THEN DirectoryPages(Tail(folders))
    ELSE IF folders[1].page_json.kind = "not_object" THEN Aborted
    ELSE IF DirectoryPages(Tail(folders)) = Aborted THEN Aborted
    ELSE [kind |-> "pages",
          pages |-> <<PageRecord(folders[1].name, folders[1].page_json.cfg,
                                 ReadVisuals(SortedByName(folders[1].visuals)))>>
                    \o DirectoryPages(Tail(folders)).pages]

\* The returned list of discover_report_pages: the pages in their order
OrderedList(r) == [i \in 1..Len(r.lst) |-> r.heap[r.lst[i]]]

discover_report_pages(folders, pj, rj) ==
    IF DirectoryPages(SortedByName(folders)) = Aborted THEN Aborted
    ELSE [kind |-> "pages",
          pages |-> OrderedList(OrderDiscovered(
                        DirectoryPages(SortedByName(folders)).pages,
                        Identity(Len(DirectoryPages(SortedByName(folders)).pages)),
                        pj, rj))]

\* First loop of _discover_pages_split: page_map, in the order of the
\* archive's name list
RECURSIVE PageMap(_)
PageMap(folders) ==
    IF folders = <<>> THEN [kind |-> "pages", pages |-> <<>>]
    ELSE IF folders[1].page_json.kind = "unreadable" THEN PageMap(Tail(folders))
    ELSE IF folders[1].page_json.kind = "not_object" THEN Aborted
    ELSE IF PageMap(Tail(folders)) = Aborted THEN Aborted
    ELSE [kind |-> "pages",
          pages |-> <<PageRecord(folders[1].name, folders[1].page_json.cfg, <<>>)>>
                    \o PageMap(Tail(folders)).pages]

\* The visual entries of the archive that name the page, in list order
VisualEntriesOf(folders, page_id) ==
    IF \E i \in 1..Len(folders) : folders[i].name = page_id
    THEN (CHOOSE f \in Range(folders) : f.name = page_id).visuals
    ELSE <<>>

\* Second loop of _discover_pages_split: the visuals of the pages in
\* page_map; the result is list(page_map.values())
_discover_pages_split(folders) ==
    IF PageMap(folders) = Aborted THEN Aborted
    ELSE [kind |-> "pages",
          pages |-> [i \in 1..Len(PageMap(folders).pages) |->
                        [PageMap(folders).pages[i] EXCEPT
                            !.visuals = ReadVisuals(VisualEntriesOf(folders, PageMap(folders).pages[i].name))]]]

(***************************************************************************)
(* Reports the discovery is run on                                         *)
(***************************************************************************)
\* Most page folders of a report
MaxPageDirs == 2

\* Most visual folders of a page
MaxVisualDirs == 2

VisualNames == <<"v1", "v2", "v3">>

Unreadable == [kind |-> "unreadable"]

NotObject == [kind |-> "not_object"]

PageManifests ==
    {Unreadable, NotObject,
     [kind |-> "ok", cfg |-> [displayName |-> <<"g">>]],
     [kind |-> "ok", cfg |-> [ordinal |-> 0]]}

VisualManifests ==
    {Unreadable, NotObject,
     [kind |-> "ok", visualType |-> <<"card">>, title |-> NoneValue,
      projs |-> <<Proj("Y", "Measure", <<"T">>, <<"m">>, <<>>)>>]}

VisualListings ==
    UNION { { [j \in 1..k |-> [name |-> VisualNames[j], visual_json |-> m[j]]] :
                m \in [1..k -> VisualManifests] } :
            k \in 0..Min2(MaxVisualDirs, Len(VisualNames)) }

\* str order of the folders, as a directory sorts into; an archive lists
\* its entries in any order
FolderListings ==
    UNION { { [i \in 1..n |-> [name |-> PageNames[i], page_json |-> pm[i],
                               visuals |-> vs[i]]] :
                pm \in [1..n -> PageManifests], vs \in [1..n -> VisualListings] } :
            n \in 0..Min2(MaxPageDirs, Len(PageNames)) }

Reverse(s) == [i \in 1..Len(s) |-> s[Len(s) + 1 - i]]

InitDiscover ==
    /\ pc = "listed"
    /\ \E listing \in FolderListings : reportDir \in {listing, Reverse(listing)}
    /\ found = [kind |-> "none"]
    /\ OrderIdle
    /\ RefsIdle
    /\ QueryIdle
    /\ LayoutIdle
    /\ TmdlIdle

\* discover_report_pages on a report directory with these page folders
DiscoverFromDirectory ==
    /\ pc = "listed"
    /\ found' = discover_report_pages(reportDir, pagesJson, reportJson)
    /\ pc' = "directory_read"
    /\ UNCHANGED <<reportDir, orderVars, refVars, queryVars, layoutVars, tmdlVars>>

\* _discover_pages_split on an archive with these entries
DiscoverFromArchive ==
    /\ pc = "listed"
    /\ found' = _discover_pages_split(reportDir)
    /\ pc' = "archive_read"
    /\ UNCHANGED <<reportDir, orderVars, refVars, queryVars, layoutVars, tmdlVars>>

NextDiscover == DiscoverFromDirectory \/ DiscoverFromArchive

SpecDiscover == InitDiscover /\ [][NextDiscover]_vars

\* The manifests of a report that cannot be read or parsed
BadPages(dir) == {i \in 1..Len(dir) : dir[i].page_json.kind # "ok"}

BadVisuals(dir) ==
    {ij \in (1..Len(dir)) \X (1..MaxVisualDirs + 1) :
        /\ ij[2] <= Len(dir[ij[1]].visuals)
        /\ dir[ij[1]].visuals[ij[2]].visual_json.kind # "ok"}

RemoveAt(s, i) == SubSeq(s, 1, i - 1) \o SubSeq(s, i + 1, Len(s))

\* The report without page folder i, and without visual j of page i
WithoutPage(dir, i) == RemoveAt(dir, i)

WithoutVisual(dir, i, j) == [dir EXCEPT ![i].visuals = RemoveAt(@, j)]

\* What the reader that ran returns for a report
Discovery(dir) ==
    IF pc = "directory_read" THEN discover_report_pages(dir, pagesJson, reportJson)
    ELSE _discover_pages_split(dir)

\* C18: when exactly one page manifest or one visual manifest of a report
\* cannot be read or parsed, discovery does not abort and returns what it
\* returns for the report without that page folder, or without that visual.
C18_BadManifestIsolated ==
    pc \in {"directory_read", "archive_read"} =>
        /\ \A i \in BadPages(reportDir) :
               (BadPages(reportDir) = {i} /\ BadVisuals(reportDir) = {}) =>
                   /\ found.kind = "pages"
                   /\ found = Discovery(WithoutPage(reportDir, i))
        /\ \A ij \in BadVisuals(reportDir) :
               (BadVisuals(reportDir) = {ij} /\ BadPages(reportDir) = {}) =>
                   /\ found.kind = "pages"
                   /\ found = Discovery(WithoutVisual(reportDir, ij[1], ij[2]))

\* The header lines as the parser recognises them
IsRelationshipHeader(raw_line) ==
    StartsWith(Strip(raw_line, IsBlank), <<"relationship">>)

IsTableHeader(raw_line) ==
    get_indent(raw_line) = 0 /\ TableMatch(Strip(raw_line, IsBlank)) # NoneValue

IsMeasureHeader(raw_line) == MeasureMatch(raw_line) # NoneObject

IsColumnHeader(raw_line) == ColMatch(raw_line) # NoneValue

IsHeaderLine(raw_line) ==
    \/ IsRelationshipHeader(raw_line)
    \/ IsTableHeader(raw_line)
    \/ IsMeasureHeader(raw_line)
    \/ IsColumnHeader(raw_line)

\* The parser is about to scan a line while it accumulates an expression
Accumulating ==
    /\ pc = "scanning"
    /\ line_no <= Len(lines)
    /\ Strip(lines[line_no], IsBlank) # <<>>
    /\ scan.in_measure_expr
    /\ scan.current_measure # NoneObject

\* C19: while an expression is accumulated, a property-keyword line ends
\* the accumulation, and so does a column, measure, table or relationship
\* header line; the header line is not appended to the expression, and a
\* column header opens the column of that name.
C19_HeaderEndsExpression ==
    [][ Accumulating =>
          /\ PropMatch(lines[line_no]) => ~scan'.in_measure_expr
          /\ IsHeaderLine(lines[line_no]) =>
                /\ scan'.measure_expr_lines
                       # Append(scan.measure_expr_lines, Strip(lines[line_no], IsBlank))
                /\ (IsColumnHeader(lines[line_no]) /\ ~IsMeasureHeader(lines[line_no])) =>
                       /\ scan'.current_column # NoneObject
                       /\ scan'.current_column.name
                              = Strip(Strip(ColMatch(lines[line_no]), IsBlank), IsQuote)
      ]_vars

\* The relationship blocks of a file: a block runs from its header to the
\* next relationship header, the next top-level line or the end of input
HeaderLines(file) == {h \in 1..Len(file) : IsRelationshipHeader(file[h])}

EndsBlock(raw_line) ==
    /\ Strip(raw_line, IsBlank) # <<>>
    /\ \/ IsRelationshipHeader(raw_line)
       \/ get_indent(raw_line) = 0 /\ ~IsRelProp(Strip(raw_line, IsBlank))

BlockEnd(file, h) ==
    IF \E k \in (h + 1)..Len(file) : EndsBlock(file[k])
    THEN CHOOSE k \in (h + 1)..Len(file) :
            EndsBlock(file[k]) /\ \A j \in (h + 1)..(k - 1) : ~EndsBlock(file[j])
    ELSE Len(file) + 1

\* The block of header h has a line `prop: value` with a value
Declares(file, h, prop) ==
    \E k \in (h + 1)..(BlockEnd(file, h) - 1) :
        /\ StartsWith(Strip(file[k], IsBlank), <<prop, ":">>)
        /\ RelPropValue(Strip(file[k], IsBlank)) # <<>>

CompleteBlocks(file) ==
    {h \in HeaderLines(file) :
        Declares(file, h, "fromTable") /\ Declares(file, h, "toTable")}

\* C20: the result holds exactly one relationship record per relationship
\* block that declares a from-table and a to-table, however the block ends
\* (top-level line, header of the next relationship block, end of input).
C20_OneRecordPerBlock ==
    pc = "parsed" =>
        Cardinality({i \in 1..Len(scan.relationships) : RelComplete(scan.relationships[i])})
            = Cardinality(CompleteBlocks(lines))

\* The parser is about to scan line line_no
Scanning == pc = "scanning" /\ line_no <= Len(lines)

\* The open table as it stands once its pending measure and column are
\* attached: the measure with the expression text gathered so far
PendingMeasures(st) ==
    IF st.current_measure = NoneObject THEN <<>>
    ELSE <<[name |-> st.current_measure.name,
            dax |-> Strip(JoinLines(st.measure_expr_lines), IsWhite)]>>

PendingColumns(st) ==
    IF st.current_column = NoneObject THEN <<>> ELSE <<st.current_column>>

ClosedTable(st) ==
    [name |-> st.current_table.name,
     columns |-> st.current_table.columns \o PendingColumns(st),
     measures |-> st.current_table.measures \o PendingMeasures(st)]

TablesWithOpen(st) ==
    IF st.current_table = NoneObject THEN st.tables
    ELSE Append(st.tables, ClosedTable(st))

\* C21: a table header line at indentation zero opens a new table context
\* wherever it occurs, also directly after a relationship block: the
\* previous table is stored with its pending column and measure, the header
\* becomes the open table with no column and no measure yet, and no line
\* changes a table that is already stored.
C21_TableHeaderOpens ==
    [][ Scanning =>
          /\ SubSeq(scan'.tables, 1, Len(scan.tables)) = scan.tables
          /\ IsTableHeader(lines[line_no]) =>
                /\ scan'.tables = TablesWithOpen(scan)
                /\ scan'.current_table
                       = [name |-> TableMatch(Strip(lines[line_no], IsBlank)),
                          columns |-> <<>>, measures |-> <<>>]
                /\ scan'.current_column = NoneObject
                /\ scan'.current_measure = NoneObject
      ]_vars

\* No table header among the lines scanned so far
BeforeFirstTable == \A k \in 1..(line_no - 1) : ~IsTableHeader(lines[k])

\* C22: a column or measure line scanned before the first table header
\* changes nothing, and at the end of input the open table goes into the
\* result with its open column and open measure; a measure that has no
\* expression text is included with an empty expression.
C22_ParserBoundaries ==
    [][ /\ (Scanning /\ BeforeFirstTable
              /\ (IsColumnHeader(lines[line_no]) \/ IsMeasureHeader(lines[line_no])))
             => scan' = scan
        /\ (pc = "scanning" /\ line_no > Len(lines))
             => scan'.tables = TablesWithOpen(scan)
      ]_vars

C22_Witness ==
    /\ pc = "parsed"
    /\ lines = <<<<"\t", "measure", " ", "Margin", " ", "=">>,
                 <<"table", " ", "Sales">>,
                 <<"\t", "column", " ", "OrderId">>,
                 <<"\t", "measure", " ", "Margin", " ", "=">>>>
    /\ scan.tables = <<[name |-> <<"Sales">>,
                        columns |-> <<[name |-> <<"OrderId">>, dataType |-> <<"unknown">>]>>,
                        measures |-> <<[name |-> <<"Margin">>, dax |-> <<>>]>>]>>

\* C30: every relationship record of the result has a non-empty from-table
\* and a non-empty to-table, whether its block was ended by a top-level line
\* or by the end of input.
C30_RecordsComplete ==
    \A i \in 1..Len(scan.relationships) : RelComplete(scan.relationships[i])

\* The image-resource heuristic decided the order of the returned list
ImageDecides == pc = "ordered" /\ pagesJson.kind = "absent" /\ ImageApplicable

\* Slots and pages as the exact pass leaves them
SlotsAfterExact == ExactPass(pages, Identity(Len(pages)), PngOrder(reportJson.items))

PagesAfterExact ==
    UnmatchedAfterExact(pages, Identity(Len(pages)), PngOrder(reportJson.items),
                        SlotsAfterExact)

PairScore(png_order, i, k) == _overlap_score(_norm(pages[k].display_name), png_order[i])

\* The (free slot, unmatched page position) pairs of the highest score
BestPairs(png_order, slots, unmatched) ==
    {ij \in {i \in 1..Len(slots) : slots[i] = 0} \X (1..Len(unmatched)) :
        \A i \in {x \in 1..Len(slots) : slots[x] = 0}, j \in 1..Len(unmatched) :
            PairScore(png_order, ij[1], unmatched[ij[2]])
                >= PairScore(png_order, i, unmatched[j])}

\* Every outcome of the global greedy procedure: the best-scoring pair of a
\* free slot and an unmatched page is assigned, ties in any way, until the
\* free slots or the unmatched pages are exhausted
RECURSIVE GlobalGreedy(_, _, _)
GlobalGreedy(png_order, slots, unmatched) ==
    IF unmatched = <<>> \/ \A i \in 1..Len(slots) : slots[i] # 0
    THEN {[result |-> slots, unmatched |-> unmatched]}
    ELSE UNION { GlobalGreedy(png_order,
                              [slots EXCEPT ![ij[1]] = unmatched[ij[2]]],
                              SubSeq(unmatched, 1, ij[2] - 1)
                                  \o SubSeq(unmatched, ij[2] + 1, Len(unmatched))) :
                 ij \in BestPairs(png_order, slots, unmatched) }

\* C23: the pages and image identifiers that the exact pass leaves
\* unmatched are assigned by repeatedly taking the unmatched (page, image)
\* pair of the globally highest word-overlap score; the returned order is
\* the order of that global greedy procedure.
C23_GlobalGreedy ==
    ImageDecides =>
        ordered \in {OrderedPages(g) :
                        g \in GlobalGreedy(PngOrder(reportJson.items),
                                           SlotsAfterExact, PagesAfterExact)}

\* Page k's display name and image identifier i are equal after both are
\* normalised
NormEqual(k, i) ==
    _norm(pages[k].display_name) = _norm(PngOrder(reportJson.items)[i])

\* Position of page k in the returned list, 0 if it is not in it
PositionOf(k) ==
    IF \E i \in 1..Len(ordered) : ordered[i] = k
    THEN CHOOSE i \in 1..Len(ordered) :
            ordered[i] = k /\ \A j \in 1..(i - 1) : ordered[j] # k
    ELSE 0

\* C24: the exact pass matches an image identifier exactly when some page's
\* display name equals it after both are normalised, to a page of that
\* name; pages matched to different identifiers come out in the order of
\* their identifiers.
C24_ExactAfterNormalising ==
    ImageDecides =>
        /\ \A i \in 1..Len(PngOrder(reportJson.items)) :
               /\ SlotsAfterExact[i] # 0 <=> \E k \in 1..Len(pages) : NormEqual(k, i)
               /\ SlotsAfterExact[i] # 0 => NormEqual(SlotsAfterExact[i], i)
        /\ \A i, j \in 1..Len(PngOrder(reportJson.items)) :
               \A k, l \in 1..Len(pages) :
                   (i < j /\ NormEqual(k, i) /\ NormEqual(l, j)
                      /\ ~NormEqual(k, j) /\ ~NormEqual(l, i)
                      /\ \A m \in 1..Len(pages) :
                             (NormEqual(m, i) => m = k) /\ (NormEqual(m, j) => m = l))
                       => PositionOf(k) < PositionOf(l)

\* C28: the list returned by the image-resource heuristic holds every input
\* page exactly once, also when two pages have the same normalised display
\* name and when an image identifier is registered twice.
C28_PagesPreserved ==
    ImageDecides => IsPermutationOfPages

\* The declared ordinals decide the order of the returned list
OrdinalDecides ==
    /\ pc = "ordered"
    /\ \/ orderer = "directory" /\ pagesJson.kind = "absent" /\ reportJson.kind = "absent"
       \/ orderer = "archive" /\ ~ExplicitApplicable

\* The first image slot that the exact pass leaves free, 0 if none
FirstFreeSlot ==
    IF \E i \in 1..Len(SlotsAfterExact) : SlotsAfterExact[i] = 0
    THEN CHOOSE i \in 1..Len(SlotsAfterExact) :
            SlotsAfterExact[i] = 0 /\ \A j \in 1..(i - 1) : SlotsAfterExact[j] # 0
    ELSE 0

\* Page k scores highest for slot i among the pages `rest`
BestAmong(rest, png_order, i, k) ==
    /\ k \in Range(rest)
    /\ \A l \in Range(rest) : PairScore(png_order, i, k) >= PairScore(png_order, i, l)

\* Page k scores highest for slot i among the pages the exact pass left
BestFor(i, k) == BestAmong(PagesAfterExact, PngOrder(reportJson.items), i, k)

\* Slot i, when free after the exact pass, holds the earliest discovered of
\* its highest-scoring pages
EarliestBestAt(rest, png_order, i) ==
    (i # 0 /\ rest # <<>>) =>
        /\ BestAmong(rest, png_order, i, ordered[i])
        /\ \A k \in Range(rest) :
               BestAmong(rest, png_order, i, k) => ordered[i] <= k

\* C27: ties are resolved by discovery order in every strategy: pages of
\* the same declared ordinal, pages that are both absent from the explicit
\* manifest, and pages of the same best word-overlap score for an image
\* slot (the slot goes to the earliest discovered of them).
C27_TiesByDiscoveryOrder ==
    /\ OrdinalDecides =>
           \A i, j \in 1..Len(ordered) :
               (i < j /\ pages[ordered[i]].ordinal = pages[ordered[j]].ordinal)
                   => ordered[i] < ordered[j]
    /\ (pc = "ordered" /\ ExplicitApplicable) =>
           \A i, j \in 1..Len(ordered) :
               (i < j /\ ~Listed(ordered[i]) /\ ~Listed(ordered[j]))
                   => ordered[i] < ordered[j]
    /\ ImageDecides =>
           EarliestBestAt(PagesAfterExact, PngOrder(reportJson.items), FirstFreeSlot)

\* Two pages tie for the first free image slot
C27_Witness ==
    /\ ImageDecides
    /\ FirstFreeSlot # 0
    /\ \E k, l \in 1..Len(pages) :
           k < l /\ BestFor(FirstFreeSlot, k) /\ BestFor(FirstFreeSlot, l)
             /\ ordered[FirstFreeSlot] = k

\* What the other orderer returns for the same page list and the same
\* explicit order manifest
OtherOrderer ==
    IF orderer = "directory"
    THEN _order_pages(pages, Identity(Len(pages)), pagesJson)
    ELSE OrderDiscovered(pages, Identity(Len(pages)), pagesJson, reportJson)

\* C29: with no image-resource manifest, the directory orderer and the
\* archive orderer return the same pages in the same order with the same
\* ordinals, whatever the state of the explicit order manifest (absent,
\* unreadable, empty list, non-empty list).
C29_OrderersAgree ==
    (pc = "ordered" /\ reportJson.kind = "absent") =>
        [lst |-> ordered, heap |-> heap] = OtherOrderer

(***************************************************************************)
(* Role classification and malformed bindings                              *)
(***************************************************************************)
\* The binding is the first one of its (entity, property) pair and the
\* reader records it
RecordedBinding(i) ==
    /\ ResolvedPair(bindings[i]) # <<>>
    /\ FirstOccurrence(ResolvedPair(bindings[i])) = i
    /\ ~NotExtracted(i)

\* C25: in both schema generations a field bound under one of the
\* measure-carrying roles is recorded in the measure list and a field bound
\* under any other role is recorded in the dimension list.
C25_RoleDecidesList ==
    pc = "resolved" =>
        \A i \in 1..Len(bindings) :
            RecordedBinding(i) =>
                IF bindings[i].role \in _MEASURE_ROLES
                THEN /\ RecordedIn(info.measures, ResolvedPair(bindings[i]))
                     /\ ~RecordedIn(info.columns, ResolvedPair(bindings[i]))
                ELSE /\ RecordedIn(info.columns, ResolvedPair(bindings[i]))
                     /\ ~RecordedIn(info.measures, ResolvedPair(bindings[i]))

\* The projection has one of the four binding shapes the modern reader
\* knows, with an owning entity and a property
WellFormed(b) ==
    /\ b.kind \in {"Measure", "Column", "Aggregation", "HierarchyLevel"}
    /\ b.entity # <<>>
    /\ ResolvedPair(b)[2] # <<>>

\* C26: a projection of an unrecognized or malformed shape costs the visual
\* that one field reference only: every well-formed binding of the visual,
\* before or after the bad one, is recorded in the measure list or in the
\* dimension list.
C26_OnlyBadBindingOmitted ==
    (pc = "resolved" /\ schema = "modern") =>
        \A i \in 1..Len(bindings) :
            WellFormed(bindings[i]) =>
                \/ RecordedIn(info.measures, ResolvedPair(bindings[i]))
                \/ RecordedIn(info.columns, ResolvedPair(bindings[i]))

====
